---- MODULE Spec2Model ----
(***************************************************************************)
(* SongSmash: the Spotify service (token lifecycle and track discovery)    *)
(* of src/unnamed/part_001 with the game screen that calls it              *)
(* (src/unnamed/part_002).                                                 *)
(*                                                                         *)
(* Every `await` of the source is a suspension point: one action of the    *)
(* model runs the synchronous code between two awaits of one flow of       *)
(* control.  A flow is the constructor's un-awaited storage load           *)
(* ("loader") or a call made by a screen ("game", "teams").                *)
(* Time is counted in minutes.                                             *)
(***************************************************************************)
EXTENDS Integers, Sequences, FiniteSets, TLC

VARIABLES
    accessToken,      \* this.accessToken
    refreshToken,     \* this.refreshToken
    tokenExpiry,      \* this.tokenExpiry
    codeVerifier,     \* this.codeVerifier
    secureStore,      \* SecureStore: key -> value
    now,              \* Date.now(), in minutes
    artistGenresCache, \* this.artistGenresCache: artist id -> genres
    albumGenresCache, \* this.albumGenresCache: album id -> genres
    flow,             \* per flow of control: position, call stack, locals, observations
    pure,             \* a pure function of the service under evaluation: argument and result
    game              \* the game store and the score entry of the game screen

vars == <<accessToken, refreshToken, tokenExpiry, codeVerifier, secureStore, now,
          artistGenresCache, albumGenresCache, flow, pure, game>>

\* the state of the service and of its callers
service == <<accessToken, refreshToken, tokenExpiry, codeVerifier, secureStore, now,
             artistGenresCache, albumGenresCache, flow>>

token == <<accessToken, refreshToken, tokenExpiry>>
caches == <<artistGenresCache, albumGenresCache>>

-----------------------------------------------------------------------------
(* Values *)

\* null / undefined of the in-memory fields
Null == 0
\* NaN, and its string "NaN"
NaN == -3
\* SecureStore: the key is not present (getItemAsync resolves null)
Absent == -1
\* SecureStore: the empty string ''
Empty == -2

\* the 5 minute buffer of isTokenExpired
Skew == 5

\* scenario C: the access token expired this many minutes ago
ExpiredAgo == 10

\* the first instant of the process
StartTime == 12
\* time stops advancing here
MaxTime == StartTime + 1

ACCESS_TOKEN_KEY == "spotify_access_token"
REFRESH_TOKEN_KEY == "spotify_refresh_token"
TOKEN_EXPIRY_KEY == "spotify_token_expiry"
VERIFIER_KEY == "spotify_code_verifier"

StoreKeys == {ACCESS_TOKEN_KEY, REFRESH_TOKEN_KEY, TOKEN_EXPIRY_KEY, VERIFIER_KEY}

\* JavaScript truthiness of a token or a number held in memory
Truthy(x) == x > 0
\* JavaScript truthiness of what getItemAsync resolves (null and '' are falsy, 'NaN' is not)
StrTruthy(s) == s # Absent /\ s # Empty

\* x || ''  as written by saveTokensToStorage
OrEmpty(x) == IF Truthy(x) THEN x ELSE Empty
\* this.tokenExpiry?.toString() || ''
ExpiryToString(e) == IF e = Null THEN Empty ELSE e
\* parseInt(expiryStr, 10)
ParseInt(s) == IF s = Empty \/ s = Absent THEN NaN ELSE s

-----------------------------------------------------------------------------
(* The token endpoint's answers *)

\* expires_in of a token response, in minutes; Null when the field is missing
ShortLife == 3
LongLife == 6

\* 2xx bodies: {access_token, refresh_token?, expires_in}
TokenBodies ==
    { [access |-> 2, refresh |-> 3, life |-> LongLife],
      [access |-> 2, refresh |-> Null, life |-> LongLife],
      [access |-> 2, refresh |-> 3, life |-> ShortLife],
      [access |-> Null, refresh |-> Null, life |-> Null] }

\* Date.now() + (data.expires_in * 1000)
ExpiryOf(t, life) == IF life = Null THEN NaN ELSE t + life

-----------------------------------------------------------------------------
\* a variant of isTokenExpired without the 5 minute buffer
isTokenExpiredNoBuffer ==
    IF ~Truthy(tokenExpiry) THEN TRUE ELSE now >= tokenExpiry

(* isTokenExpired, part_001:141-145 *)
isTokenExpired ==
    IF ~Truthy(tokenExpiry) THEN TRUE ELSE now >= tokenExpiry - Skew

\* this.accessToken && !this.isTokenExpired()
HasValidToken == Truthy(accessToken) /\ ~isTokenExpired

-----------------------------------------------------------------------------
(* Flows of control *)

Flows == {"loader", "game", "teams"}
Callers == Flows \ {"loader"}

\* generateCodeVerifier: 128 random characters; one value per flow of control
generateCodeVerifier(f) == IF f = "game" THEN 1 ELSE 2
\* generateCodeChallenge: base64url(SHA-256(verifier)), injective on the verifiers used
generateCodeChallenge(v) == v + 10

\* a flow that runs nothing
NoFilters == [genres |-> <<>>, decades |-> <<>>, difficulty |-> <<>>, relaxFilters |-> FALSE]
NoTrack == [id |-> 0, popularity |-> 0, year |-> 0, preview |-> FALSE, artists |-> <<>>, album |-> 0]
NoOutcome == [kind |-> "none", track |-> NoTrack, attemptedFilters |-> NoFilters]

\* no 2xx answer of the token endpoint has been handled
NoAnswer == [by |-> "none", data |-> [access |-> Null, refresh |-> Null, life |-> Null],
             at |-> 0, hadRefresh |-> Null, hadStored |-> Absent]

\* the 2xx answer `data` to a request of kind `by` is being processed
Answer(by, data) ==
    [by |-> by, data |-> data, at |-> now, hadRefresh |-> refreshToken,
     hadStored |-> secureStore[REFRESH_TOKEN_KEY]]

Idle ==
    [ pc |-> "idle", stack |-> <<>>, rv |-> FALSE, op |-> "none",
      \* token requests in flight
      reqRefresh |-> Null, pend |-> <<>>, challenge |-> Null, sentVerifier |-> Null,
      \* getRandomTrack: filters, loop index i, tracks, genre verification
      filters |-> NoFilters, i |-> 0, tracks |-> <<>>, batchAt |-> 0, look |-> <<>>,
      genreFilteredTracks |-> <<>>, availableSeeds |-> {}, query |-> <<>>,
      outcome |-> NoOutcome, callback |-> FALSE, ui |-> "none",
      \* observations of the call in progress
      catalogCalls |-> 0, tried |-> 0, gate |-> "none", unauthorized |-> FALSE, reauth |-> 0,
      \* the first variant with tracks left after the difficulty step: its index, the
      \* catalog calls made by then, its tracks before and after the difficulty step
      eligibleAt |-> 0, callsThen |-> 0, candidates |-> <<>>, eligible |-> <<>>,
      entryAccess |-> FALSE, entryRefresh |-> FALSE, entryPurged |-> FALSE, entrySlack |-> 0,
      ensured |-> "none", eRequests |-> 0, ePrompts |-> 0,
      authEnd |-> "none", authRv |-> FALSE, failedWith |-> Null, resent |-> FALSE,
      refreshedOk |-> FALSE,
      \* the last 2xx answer of the token endpoint handled by the call
      answer |-> NoAnswer,
      \* what loadTokensFromStorage found in SecureStore
      loadFound |-> "none" ]

Set(f, r) == flow' = [flow EXCEPT ![f] = r] /\ UNCHANGED <<pure, game>>

\* the caller of ensureValidToken has read its result: the observations of that call
\* are dropped
Forget(r) ==
    [r EXCEPT !.entryAccess = FALSE, !.entryRefresh = FALSE, !.entryPurged = FALSE,
              !.entrySlack = 0, !.ensured = "none", !.eRequests = 0, !.ePrompts = 0,
              !.authEnd = "none", !.authRv = FALSE, !.failedWith = Null, !.resent = FALSE,
              !.refreshedOk = FALSE, !.answer = NoAnswer]

\* what a caller of ensureValidToken holds when it returns v
Ensured(v) == IF ~v THEN "failed" ELSE IF HasValidToken THEN "usable" ELSE "unusable"

\* return v to the caller on top of the stack; the frame "E_ret" marks a call of
\* ensureValidToken, whose `return await this.authenticate()` passes the value on
Return(r, v) ==
    IF Head(r.stack) = "E_ret"
    THEN [r EXCEPT !.rv = v, !.ensured = Ensured(v),
                   !.pc = r.stack[2], !.stack = Tail(Tail(r.stack))]
    ELSE [r EXCEPT !.rv = v, !.pc = Head(r.stack), !.stack = Tail(r.stack)]

\* a variant of refreshAccessToken that sends nothing while another flow's refresh request
\* is in flight and waits for that answer instead
SendRefreshJoining(r, ret) ==
    IF \E g \in DOMAIN flow : flow[g].pc = "R_wait"
    THEN [r EXCEPT !.pc = "R_wait", !.stack = <<ret>> \o r.stack, !.reqRefresh = refreshToken]
    ELSE [r EXCEPT !.pc = "R_wait", !.stack = <<ret>> \o r.stack,
                   !.reqRefresh = refreshToken, !.eRequests = @ + 1,
                   !.resent = (@ \/ (r.failedWith # Null /\ refreshToken = r.failedWith))]

\* refreshAccessToken, part_001:147-161: the request is sent with this.refreshToken
SendRefresh(r, ret) ==
    [r EXCEPT !.pc = "R_wait", !.stack = <<ret>> \o r.stack,
              !.reqRefresh = refreshToken, !.eRequests = @ + 1,
              !.resent = (@ \/ (r.failedWith # Null /\ refreshToken = r.failedWith))]

\* authenticate returns v; `how` tells which way it went
AuthReturn(r, v, how) ==
    Return([r EXCEPT !.authEnd = how, !.authRv = v, !.challenge = Null, !.sentVerifier = Null], v)

\* a variant of authenticate that does not look for a valid token first
EnterAuthenticateNoCheck(r) ==
    IF Truthy(refreshToken) THEN SendRefresh([r EXCEPT !.authEnd = "none"], "A_ref")
    ELSE [r EXCEPT !.pc = "A_del", !.authEnd = "none"]

\* authenticate, part_001:187-207, up to its first await
EnterAuthenticate(r) ==
    IF HasValidToken THEN AuthReturn(r, TRUE, "valid")
    ELSE IF Truthy(refreshToken) THEN SendRefresh([r EXCEPT !.authEnd = "none"], "A_ref")
    ELSE [r EXCEPT !.pc = "A_del", !.authEnd = "none"]

\* scenario C after its failed refresh: the credential that expired ExpiredAgo minutes
\* ago is still in memory, its three keys are gone from SecureStore
Purged ==
    /\ Truthy(accessToken) /\ Truthy(refreshToken) /\ Truthy(tokenExpiry)
    /\ now - tokenExpiry >= ExpiredAgo
    /\ secureStore[ACCESS_TOKEN_KEY] = Absent
    /\ secureStore[REFRESH_TOKEN_KEY] = Absent
    /\ secureStore[TOKEN_EXPIRY_KEY] = Absent

\* ensureValidToken, part_001:702-715, up to its first await
EnterEnsure(r, ret) ==
    LET r1 == [r EXCEPT !.stack = <<"E_ret", ret>> \o r.stack,
                        !.reauth = IF r.unauthorized THEN @ + 1 ELSE @,
                        !.entryAccess = Truthy(accessToken),
                        !.entryRefresh = Truthy(refreshToken),
                        !.entryPurged = Purged,
                        !.entrySlack = IF Truthy(tokenExpiry) THEN tokenExpiry - now ELSE 0,
                        !.ensured = "none", !.eRequests = 0, !.ePrompts = 0,
                        !.refreshedOk = FALSE, !.answer = NoAnswer]
    IN IF HasValidToken THEN Return(r1, TRUE)
       ELSE IF Truthy(refreshToken) THEN SendRefresh(r1, "E_ref")
       ELSE EnterAuthenticate(r1)

-----------------------------------------------------------------------------
(* SecureStore *)

\* saveTokensToStorage, part_001:117-127: the three values as read when it is called
SavedTokens(a, rt, e) ==
    <<OrEmpty(a), OrEmpty(rt), ExpiryToString(e)>>

WriteTokens(p) ==
    [secureStore EXCEPT ![ACCESS_TOKEN_KEY] = p[1],
                        ![REFRESH_TOKEN_KEY] = p[2],
                        ![TOKEN_EXPIRY_KEY] = p[3]]

\* clearTokensFromStorage, part_001:129-139
clearTokensFromStorage ==
    [secureStore EXCEPT ![ACCESS_TOKEN_KEY] = Absent,
                        ![REFRESH_TOKEN_KEY] = Absent,
                        ![TOKEN_EXPIRY_KEY] = Absent]

DeleteVerifier == [secureStore EXCEPT ![VERIFIER_KEY] = Absent]

-----------------------------------------------------------------------------
(* loadTokensFromStorage, part_001:94-115 *)

\* what SecureStore holds when the load reads it: nothing, a credential with more than
\* the buffer left, or one with less
Found ==
    IF secureStore[ACCESS_TOKEN_KEY] = Absent THEN "absent"
    ELSE IF secureStore[TOKEN_EXPIRY_KEY] - now > Skew THEN "fresh"
    ELSE "expired"

\* a variant of the test of part_001:107 without the 5 minute buffer
ExpiredAtLoadNoBuffer(e) == ~Truthy(ParseInt(e)) \/ now >= ParseInt(e)

\* this.isTokenExpired() at part_001:107, tokenExpiry being parseInt(expiryStr, 10)
ExpiredAtLoad(e) == ~Truthy(ParseInt(e)) \/ now >= ParseInt(e) - Skew

LoadTokens(f) ==
    /\ flow[f].pc = "L_read"
    /\ LET a == secureStore[ACCESS_TOKEN_KEY]
           rt == secureStore[REFRESH_TOKEN_KEY]
           e == secureStore[TOKEN_EXPIRY_KEY]
           r == [flow[f] EXCEPT !.loadFound = Found]
       IN IF StrTruthy(a) /\ StrTruthy(rt) /\ StrTruthy(e)
          THEN /\ accessToken' = a
               /\ refreshToken' = rt
               /\ tokenExpiry' = ParseInt(e)
               /\ IF ExpiredAtLoad(e)
                  THEN Set(f, [r EXCEPT !.pc = "R_wait", !.stack = <<"L_end">>,
                                        !.reqRefresh = rt, !.eRequests = @ + 1])
                  ELSE Set(f, [r EXCEPT !.pc = "L_end"])
          ELSE /\ Set(f, [r EXCEPT !.pc = "L_end"])
               /\ UNCHANGED <<accessToken, refreshToken, tokenExpiry>>
    /\ UNCHANGED <<codeVerifier, secureStore, now, caches>>

LoadDone(f) ==
    /\ flow[f].pc = "L_end"
    /\ Set(f, Idle)
    /\ UNCHANGED <<token, codeVerifier, secureStore, now, caches>>

-----------------------------------------------------------------------------
(* refreshAccessToken, part_001:147-185 *)

\* response.ok: part_001:163-173
RefreshOk(f) ==
    /\ flow[f].pc = "R_wait"
    /\ \E data \in TokenBodies :
         LET rt == IF Truthy(data.refresh) THEN data.refresh ELSE refreshToken
             e == ExpiryOf(now, data.life)
         IN /\ accessToken' = data.access
            /\ tokenExpiry' = e
            /\ refreshToken' = rt
            /\ Set(f, [flow[f] EXCEPT !.pc = "R_save", !.reqRefresh = Null,
                                      !.refreshedOk = TRUE,
                                      !.answer = Answer("refresh", data),
                                      !.pend = SavedTokens(data.access, rt, e)])
    /\ UNCHANGED <<codeVerifier, secureStore, now, caches>>

\* a non-2xx answer (part_001:175-177) or a rejected fetch / unparsable body (180-182)
RefreshFail(f) ==
    /\ flow[f].pc = "R_wait"
    /\ Set(f, [flow[f] EXCEPT !.pc = "R_clear", !.failedWith = flow[f].reqRefresh])
    /\ UNCHANGED <<token, codeVerifier, secureStore, now, caches>>

\* await this.saveTokensToStorage(); return true
RefreshSaved(f) ==
    /\ flow[f].pc = "R_save"
    /\ secureStore' = WriteTokens(flow[f].pend)
    /\ Set(f, Return([flow[f] EXCEPT !.pend = <<>>], TRUE))
    /\ UNCHANGED <<token, codeVerifier, now, caches>>

\* await this.clearTokensFromStorage(); return false
RefreshCleared(f) ==
    /\ flow[f].pc = "R_clear"
    /\ secureStore' = clearTokensFromStorage
    /\ Set(f, Return([flow[f] EXCEPT !.reqRefresh = Null], FALSE))
    /\ UNCHANGED <<token, codeVerifier, now, caches>>

\* ensureValidToken after its refresh: part_001:709-714
EnsureAfterRefresh(f) ==
    /\ flow[f].pc = "E_ref"
    /\ IF flow[f].rv
       THEN Set(f, Return(flow[f], TRUE))
       ELSE Set(f, EnterAuthenticate(flow[f]))
    /\ UNCHANGED <<token, codeVerifier, secureStore, now, caches>>

-----------------------------------------------------------------------------
(* authenticate, part_001:187-246 *)

\* part_001:200-207: after its refresh, return true or start the interactive flow
AuthAfterRefresh(f) ==
    /\ flow[f].pc = "A_ref"
    /\ IF flow[f].rv
       THEN Set(f, AuthReturn(flow[f], TRUE, "refreshed"))
       ELSE Set(f, [flow[f] EXCEPT !.pc = "A_del"])
    /\ UNCHANGED <<token, codeVerifier, secureStore, now, caches>>

\* part_001:207-211: the old verifier is deleted, a new one generated
AuthNewVerifier(f) ==
    /\ flow[f].pc = "A_del"
    /\ secureStore' = DeleteVerifier
    /\ codeVerifier' = generateCodeVerifier(f)
    /\ Set(f, [flow[f] EXCEPT !.pc = "A_chal",
                              !.challenge = generateCodeChallenge(generateCodeVerifier(f))])
    /\ UNCHANGED <<token, now, caches>>

\* part_001:211-214: the challenge is ready, setItemAsync(this.codeVerifier) is called
AuthStoreVerifier(f) ==
    /\ flow[f].pc = "A_chal"
    /\ Set(f, [flow[f] EXCEPT !.pc = "A_set", !.pend = <<codeVerifier>>])
    /\ UNCHANGED <<token, codeVerifier, secureStore, now, caches>>

\* part_001:214-234: the verifier is persisted, the prompt is shown
AuthPrompt(f) ==
    /\ flow[f].pc = "A_set"
    /\ secureStore' = [secureStore EXCEPT ![VERIFIER_KEY] = flow[f].pend[1]]
    /\ Set(f, [flow[f] EXCEPT !.pc = "A_prompt", !.pend = <<>>, !.ePrompts = @ + 1])
    /\ UNCHANGED <<token, codeVerifier, now, caches>>

\* part_001:236-237: the callback carries a code; exchangeCodeForTokens reads the verifier
PromptSuccess(f) ==
    /\ flow[f].pc = "A_prompt"
    /\ Set(f, [flow[f] EXCEPT !.pc = "X_get"])
    /\ UNCHANGED <<token, codeVerifier, secureStore, now, caches>>

\* part_001:241-245: the user cancelled or dismissed the prompt, or promptAsync threw
PromptDeclined(f) ==
    /\ flow[f].pc = "A_prompt"
    /\ Set(f, AuthReturn(flow[f], FALSE, "declined"))
    /\ UNCHANGED <<token, codeVerifier, secureStore, now, caches>>

-----------------------------------------------------------------------------
(* exchangeCodeForTokens, part_001:248-306 *)

\* part_001:251-271: the verifier is read back; missing, it throws; else the code is sent
ExchangeSend(f) ==
    /\ flow[f].pc = "X_get"
    /\ codeVerifier' = IF StrTruthy(secureStore[VERIFIER_KEY]) THEN secureStore[VERIFIER_KEY] ELSE Null
    /\ IF StrTruthy(secureStore[VERIFIER_KEY])
       THEN Set(f, [flow[f] EXCEPT !.pc = "X_wait", !.sentVerifier = secureStore[VERIFIER_KEY]])
       ELSE Set(f, [flow[f] EXCEPT !.pc = "X_catch"])
    /\ UNCHANGED <<token, secureStore, now, caches>>

\* part_001:273-280
ExchangeOk(f) ==
    /\ flow[f].pc = "X_wait"
    /\ \E data \in TokenBodies :
         LET e == ExpiryOf(now, data.life)
         IN /\ accessToken' = data.access
            /\ refreshToken' = data.refresh
            /\ tokenExpiry' = e
            /\ Set(f, [flow[f] EXCEPT !.pc = "X_save",
                                      !.answer = Answer("exchange", data),
                                      !.pend = SavedTokens(data.access, data.refresh, e)])
    /\ UNCHANGED <<codeVerifier, secureStore, now, caches>>

\* part_001:287-292: a non-2xx answer
ExchangeRejected(f) ==
    /\ flow[f].pc = "X_wait"
    /\ Set(f, [flow[f] EXCEPT !.pc = "X_else"])
    /\ UNCHANGED <<token, codeVerifier, secureStore, now, caches>>

\* part_001:297-301: fetch rejected or the body failed to parse
ExchangeThrew(f) ==
    /\ flow[f].pc = "X_wait"
    /\ Set(f, [flow[f] EXCEPT !.pc = "X_catch"])
    /\ UNCHANGED <<token, codeVerifier, secureStore, now, caches>>

\* part_001:280-283
ExchangeSaved(f) ==
    /\ flow[f].pc = "X_save"
    /\ secureStore' = WriteTokens(flow[f].pend)
    /\ Set(f, [flow[f] EXCEPT !.pc = "X_done", !.pend = <<>>])
    /\ UNCHANGED <<token, codeVerifier, now, caches>>

\* a variant of the clean-up that leaves the key in SecureStore
CleanUpVerifierKept == secureStore

\* the verifier clean-up of part_001:283-284, 292-293 and 301-302
CleanUpVerifier == DeleteVerifier

\* part_001:283-286 and 238: cleaned up, authenticate returns true
ExchangeDone(f) ==
    /\ flow[f].pc = "X_done"
    /\ secureStore' = CleanUpVerifier
    /\ codeVerifier' = Null
    /\ Set(f, AuthReturn(flow[f], TRUE, "exchanged"))
    /\ UNCHANGED <<token, now, caches>>

\* part_001:292-295: cleaned up, then throws into the catch of 297
ExchangeElse(f) ==
    /\ flow[f].pc = "X_else"
    /\ secureStore' = CleanUpVerifier
    /\ codeVerifier' = Null
    /\ Set(f, [flow[f] EXCEPT !.pc = "X_catch"])
    /\ UNCHANGED <<token, now, caches>>

\* part_001:297-304 and 242-245: cleaned up, rethrown, authenticate returns false
ExchangeCatch(f) ==
    /\ flow[f].pc = "X_catch"
    /\ secureStore' = CleanUpVerifier
    /\ codeVerifier' = Null
    /\ Set(f, AuthReturn(flow[f], FALSE, "exchange_failed"))
    /\ UNCHANGED <<token, now, caches>>

-----------------------------------------------------------------------------
(* Filters, tracks and the catalog's answers *)

\* genre names, character by character
Pop == <<"p", "o", "p">>
HipHopSpaced == <<"H", "i", "p", " ", "H", "o", "p">>
HipHopSeed == <<"h", "i", "p", "-", "h", "o", "p">>
Polka == <<"p", "o", "l", "k", "a">>

\* String.prototype.toLowerCase on the characters used
ToLower(ch) == IF ch = "H" THEN "h" ELSE ch
toLowerCase(g) == [k \in DOMAIN g |-> ToLower(g[k])]
\* a variant of the normalisation that leaves the spaces in place
SeedOfLowerOnly(g) == [k \in DOMAIN g |-> ToLower(g[k])]
\* g.toLowerCase().replace(/ /g, '-'), part_001:429
SeedOf(g) == [k \in DOMAIN g |-> IF g[k] = " " THEN "-" ELSE ToLower(g[k])]
\* a.includes(b)
Includes(a, b) ==
    \E k \in 1..(Len(a) - Len(b) + 1) : SubSeq(a, k, k + Len(b) - 1) = b

\* year 0: the album has no release_date; album 0: the track has no album id;
\* preview FALSE: preview_url is empty
Track1 == [id |-> 1, popularity |-> 80, year |-> 1995, preview |-> TRUE, artists |-> <<1>>, album |-> 1]
Track2 == [id |-> 2, popularity |-> 90, year |-> 1991, preview |-> FALSE, artists |-> <<1>>, album |-> 0]
Track3 == [id |-> 3, popularity |-> 20, year |-> 2005, preview |-> TRUE, artists |-> <<>>, album |-> 1]
Track4 == [id |-> 4, popularity |-> 75, year |-> 1995, preview |-> TRUE, artists |-> <<1>>, album |-> 0]

\* const batchSize = 10, part_001:532
batchSize == 10

\* an answer of one track more than a batch holds: two tracks of artist 1, tracks that
\* name no artist and no album id, and in the second batch a track of artist 1 and album 1
Crowd ==
    <<Track2, Track4>>
    \o [k \in 1..(batchSize - 2) |->
          [id |-> 4 + k, popularity |-> 20, year |-> 1995, preview |-> TRUE,
           artists |-> <<>>, album |-> 0]]
    \o <<Track1>>

\* bodies of 2xx answers of /v1/recommendations and /v1/search
CatalogAnswers ==
    { <<>>, <<Track1>>, <<Track2, Track3>>, Crowd }

\* statuses of non-2xx answers of the catalog
RejectStatuses == {401, 500}

\* bodies of 2xx answers of /v1/recommendations/available-genre-seeds
VocabularyAnswers == { {}, {Pop, HipHopSeed} }

\* genres of 2xx answers of /v1/artists/{id} and /v1/albums/{id}
GenreAnswers == { <<>>, <<Pop>> }

\* filters of the game store (part_003:9-13 and 40-44: no relaxFilters); the first are
\* its initialFilters
FilterInputs ==
    { [genres |-> <<>>, decades |-> <<>>, difficulty |-> <<"easy", "medium", "hard", "expert">>,
       relaxFilters |-> FALSE],
      [genres |-> <<Pop>>, decades |-> <<"1990s">>, difficulty |-> <<"easy">>,
       relaxFilters |-> FALSE],
      [genres |-> <<HipHopSpaced, Polka>>, decades |-> <<"1960s", "2000s">>,
       difficulty |-> <<"easy", "hard">>, relaxFilters |-> FALSE],
      [genres |-> <<Pop>>, decades |-> <<>>, difficulty |-> <<>>, relaxFilters |-> FALSE] }


Range(s) == {s[k] : k \in DOMAIN s}
Min(S) == CHOOSE x \in S : \A y \in S : x <= y
Max(S) == CHOOSE x \in S : \A y \in S : x >= y

\* a variant of searchAttempts that tries the filters as given first
searchAttemptsOriginalFirst(filters) ==
    IF filters.relaxFilters
    THEN << filters,
            [filters EXCEPT !.genres = <<>>],
            [filters EXCEPT !.genres = <<>>, !.decades = <<>>],
            [genres |-> <<>>, decades |-> <<>>, difficulty |-> filters.difficulty,
             relaxFilters |-> FALSE] >>
    ELSE <<filters>>

\* the variants tried, part_001:408-415; the last one carries no relaxFilters
searchAttempts(filters) ==
    IF filters.relaxFilters
    THEN << [filters EXCEPT !.genres = <<>>],
            [filters EXCEPT !.genres = <<>>, !.decades = <<>>],
            [genres |-> <<>>, decades |-> <<>>, difficulty |-> filters.difficulty,
             relaxFilters |-> FALSE] >>
    ELSE <<filters>>

\* part_001:428-430
validSeeds(genres, availableSeeds) ==
    SelectSeq([k \in DOMAIN genres |-> SeedOf(genres[k])], LAMBDA g : g \in availableSeeds)

\* validSeeds.slice(0, 5), part_001:459
seedGenres(seeds) == SubSeq(seeds, 1, Min({5, Len(seeds)}))

\* part_001:62-67
DIFFICULTY_RANGES ==
    [easy |-> <<70, 100>>, medium |-> <<40, 80>>, hard |-> <<0, 50>>, expert |-> <<0, 30>>]

\* part_001:445-447 and 571-573
selectedRanges(difficulty) ==
    LET known == SelectSeq(difficulty, LAMBDA d : d \in DOMAIN DIFFICULTY_RANGES)
    IN [k \in DOMAIN known |-> DIFFICULTY_RANGES[known[k]]]

\* a variant of the merge that keeps only what all selected bands share
FixedBandIntersection(difficulty) ==
    LET ranges == selectedRanges(difficulty)
    IN IF Len(ranges) > 0
       THEN << Max({ranges[k][1] : k \in DOMAIN ranges}),
               Min({ranges[k][2] : k \in DOMAIN ranges}) >>
       ELSE <<0, 100>>

\* the popularity window of the fixed bands, part_001:438-456 and 565-579
FixedBand(difficulty) ==
    LET ranges == selectedRanges(difficulty)
    IN IF Len(ranges) > 0
       THEN << Min({ranges[k][1] : k \in DOMAIN ranges}),
               Max({ranges[k][2] : k \in DOMAIN ranges}) >>
       ELSE <<0, 100>>

\* a variant of the ranges in which a decade runs into the first year of the next
yearRangesElevenYears(decades) ==
    LET known == SelectSeq(decades,
                   LAMBDA d : d \in {"1960s", "1970s", "1980s", "1990s", "2000s", "2010s", "2020s"})
        start(d) == CASE d = "1960s" -> 1960 [] d = "1970s" -> 1970 [] d = "1980s" -> 1980
                      [] d = "1990s" -> 1990 [] d = "2000s" -> 2000 [] d = "2010s" -> 2010
                      [] d = "2020s" -> 2020
    IN [k \in DOMAIN known |-> <<start(known[k]), start(known[k]) + 10>>]

\* part_001:500-511
yearRanges(decades) ==
    LET known == SelectSeq(decades,
                   LAMBDA d : d \in {"1960s", "1970s", "1980s", "1990s", "2000s", "2010s", "2020s"})
        start(d) == CASE d = "1960s" -> 1960 [] d = "1970s" -> 1970 [] d = "1980s" -> 1980
                      [] d = "1990s" -> 1990 [] d = "2000s" -> 2000 [] d = "2010s" -> 2010
                      [] d = "2020s" -> 2020
    IN [k \in DOMAIN known |-> <<start(known[k]), start(known[k]) + 9>>]

\* decade filtering, part_001:498-519
DecadeFilter(decades, tracks) ==
    IF Len(decades) > 0 /\ Len(tracks) > 0
    THEN SelectSeq(tracks,
           LAMBDA t : /\ t.year # 0
                      /\ \E k \in DOMAIN yearRanges(decades) :
                           t.year >= yearRanges(decades)[k][1] /\ t.year <= yearRanges(decades)[k][2])
    ELSE tracks

\* a variant of percentile that counts the index from the top of the array
percentileFromTop(arr, p) ==
    IF Len(arr) = 0 THEN 0
    ELSE arr[Len(arr) - Min({(p * Len(arr)) \div 100, Len(arr) - 1})]

\* percentile, part_001:583-587, on a sorted array
percentile(arr, p) ==
    IF Len(arr) = 0 THEN 0
    ELSE arr[Min({(p * Len(arr)) \div 100, Len(arr) - 1}) + 1]

\* popularities of the candidates used to probe the difficulty step
ProbePopularities == <<0, 29, 30, 31, 39, 40, 50, 51, 69, 70, 80, 81, 100>>

\* a variant of the difficulty step that always takes the percentile window
DifficultyFilterPercentile(difficulty, tracks) ==
    IF Len(tracks) = 0 THEN tracks
    ELSE LET pops == SortSeq([k \in DOMAIN tracks |-> tracks[k].popularity], <)
             window == <<percentile(pops, 25), percentile(pops, 75)>>
         IN SelectSeq(tracks,
              LAMBDA t : t.popularity >= window[1] /\ t.popularity <= window[2])

\* a variant of the difficulty step whose percentile window has no upper cut
DifficultyFilterNoEasyCut(difficulty, tracks) ==
    IF Len(tracks) = 0 THEN tracks
    ELSE LET pops == SortSeq([k \in DOMAIN tracks |-> tracks[k].popularity], <)
             window == IF Len(difficulty) > 0 THEN FixedBand(difficulty)
                       ELSE <<percentile(pops, 25), 100>>
         IN SelectSeq(tracks,
              LAMBDA t : t.popularity >= window[1] /\ t.popularity <= window[2])

\* a variant of the difficulty step that leaves out the tracks on the cuts
DifficultyFilterOpenWindow(difficulty, tracks) ==
    IF Len(tracks) = 0 THEN tracks
    ELSE LET pops == SortSeq([k \in DOMAIN tracks |-> tracks[k].popularity], <)
             window == IF Len(difficulty) > 0 THEN FixedBand(difficulty)
                       ELSE <<percentile(pops, 25), percentile(pops, 75)>>
         IN SelectSeq(tracks,
              LAMBDA t : t.popularity > window[1] /\ t.popularity < window[2])

\* difficulty filtering, part_001:563-607
DifficultyFilter(difficulty, tracks) ==
    IF Len(tracks) = 0 THEN tracks
    ELSE LET pops == SortSeq([k \in DOMAIN tracks |-> tracks[k].popularity], <)
             window == IF Len(difficulty) > 0 THEN FixedBand(difficulty)
                       ELSE <<percentile(pops, 25), percentile(pops, 75)>>
         IN SelectSeq(tracks,
              LAMBDA t : t.popularity >= window[1] /\ t.popularity <= window[2])

-----------------------------------------------------------------------------
(* getTrackGenres, part_001:338-392 *)

\* the lookups of one track, run from artist k on until a fetch has to be awaited:
\* "artist" / "album" name the fetch in flight, "done" the returned genres; `failed` is
\* set once a fetch of the track has failed
RECURSIVE Lookup(_, _, _, _, _)
Lookup(t, k, genres, artistCache, albumCache) ==
    IF k <= Len(t.artists)
    THEN IF t.artists[k] \in DOMAIN artistCache
         THEN Lookup(t, k + 1, genres \cup Range(artistCache[t.artists[k]]), artistCache, albumCache)
         ELSE [stage |-> "artist", k |-> k, genres |-> genres, failed |-> FALSE]
    ELSE IF t.album = 0
         THEN [stage |-> "done", k |-> k, genres |-> genres, failed |-> FALSE]
         ELSE IF t.album \in DOMAIN albumCache
              THEN [stage |-> "done", k |-> k, failed |-> FALSE,
                    genres |-> genres \cup Range(albumCache[t.album])]
              ELSE [stage |-> "album", k |-> k, genres |-> genres, failed |-> FALSE]

\* part_001:526 and 538-545 (trim changes none of the names used)
hasMatchingGenre(trackGenres, genres) ==
    \E tg \in trackGenres : \E k \in DOMAIN genres :
        \/ Includes(toLowerCase(tg), toLowerCase(genres[k]))
        \/ Includes(toLowerCase(genres[k]), toLowerCase(tg))

\* batchResults.filter(track => track !== null), part_001:547-556
RECURSIVE MatchingOf(_, _, _)
MatchingOf(batch, look, genres) ==
    IF batch = <<>> THEN <<>>
    ELSE (IF hasMatchingGenre(Head(look).genres, genres) THEN <<Head(batch)>> ELSE <<>>)
         \o MatchingOf(Tail(batch), Tail(look), genres)

-----------------------------------------------------------------------------
(* getRandomTrack, part_001:394-622, and its caller playRandomTrack, part_002:40-83 *)

NullOutcome == [kind |-> "null", track |-> NoTrack, attemptedFilters |-> NoFilters]
TrackOutcome(t) == [kind |-> "track", track |-> t, attemptedFilters |-> NoFilters]
\* a variant of the result of part_001:617 that reports the last variant tried
NoTracksOutcomeLastVariant(r) ==
    [kind |-> "noTracks", track |-> NoTrack,
     attemptedFilters |-> searchAttempts(r.filters)[Len(searchAttempts(r.filters))]]

\* part_001:617
NoTracksOutcome(r) == [kind |-> "noTracks", track |-> NoTrack, attemptedFilters |-> r.filters]

\* what the game screen does with the result: part_002:52-79 for the first call
\* ('noTracks' in null throws into the catch of line 78), 64-68 for the relax callback
Reaction(callback, o) ==
    IF callback
    THEN IF o.kind = "track" THEN "play" ELSE "alertNoTrackAfterRelax"
    ELSE CASE o.kind = "track" -> "play"
           [] o.kind = "noTracks" -> "relaxPrompt"
           [] OTHER -> "alertError"

\* the call is over: only the result and the observations are kept
Done(r, o) ==
    [Idle EXCEPT !.pc = "done", !.op = r.op, !.filters = r.filters, !.outcome = o,
                 !.callback = r.callback, !.ui = Reaction(r.callback, o),
                 !.catalogCalls = r.catalogCalls, !.tried = r.tried, !.gate = r.gate,
                 !.unauthorized = r.unauthorized, !.reauth = r.reauth,
                 !.i = r.i, !.eligibleAt = r.eligibleAt, !.callsThen = r.callsThen,
                 !.candidates = r.candidates, !.eligible = r.eligible]

attemptFilters(r) == searchAttempts(r.filters)[r.i]

\* getAvailableGenres up to its first await, part_001:632-633
EnterAvailableGenres(r, ret) ==
    EnterEnsure([r EXCEPT !.stack = <<ret>> \o r.stack], "G_tok")

\* the head of the loop, part_001:417-435 and 479-489: variant i is started, or the
\* loop is over and part_001:617 returns
BeginAttempt(r) ==
    IF r.i > Len(searchAttempts(r.filters))
    THEN Done(r, NoTracksOutcome(r))
    ELSE LET r1 == [r EXCEPT !.tried = @ + 1, !.tracks = <<>>, !.look = <<>>, !.batchAt = 0,
                             !.genreFilteredTracks = <<>>, !.query = <<>>, !.availableSeeds = {}]
         IN IF Len(attemptFilters(r).genres) > 0
            THEN EnterAvailableGenres(r1, "T_seeds")
            ELSE [r1 EXCEPT !.pc = "T_search", !.catalogCalls = @ + 1]

\* a variant of `continue` that starts the same variant again
NextAttemptSameVariant(r) == BeginAttempt(r)

\* `continue`, or the end of the loop body with no track
NextAttempt(r) == BeginAttempt([r EXCEPT !.i = @ + 1])

\* a variant of part_001:400-404 that starts the loop whatever ensureValidToken returned
AfterTokenCheckNoGate(r) ==
    BeginAttempt([r EXCEPT !.gate = IF r.rv THEN "ok" ELSE "failed", !.i = 1])

\* part_001:400-404: without a token the call returns null, else the loop starts
AfterTokenCheck(r) ==
    IF ~r.rv
    THEN Done([r EXCEPT !.gate = "failed"], NullOutcome)
    ELSE BeginAttempt([r EXCEPT !.gate = "ok", !.i = 1])

\* variant i has left the tracks ts of `tracks` after the difficulty step
Eligible(r, tracks, ts) ==
    IF r.eligibleAt = 0
    THEN [r EXCEPT !.eligibleAt = r.i, !.callsThen = r.catalogCalls,
                   !.candidates = tracks, !.eligible = ts]
    ELSE r

\* a variant of the end of the loop body that returns only from the last variant
OutcomesLastVariantOnly(r, tracks) ==
    LET ts == DifficultyFilter(attemptFilters(r).difficulty, tracks)
    IN IF Len(ts) > 0
       THEN IF r.i = Len(searchAttempts(r.filters))
            THEN { Done(Eligible(r, tracks, ts), TrackOutcome(ts[k])) : k \in DOMAIN ts }
            ELSE { NextAttempt(Eligible(r, tracks, ts)) }
       ELSE { NextAttempt(r) }

\* part_001:563-614: difficulty filtering, then a random track or the next variant
Outcomes(r, tracks) ==
    LET ts == DifficultyFilter(attemptFilters(r).difficulty, tracks)
    IN IF Len(ts) > 0
       THEN { Done(Eligible(r, tracks, ts), TrackOutcome(ts[k])) : k \in DOMAIN ts }
       ELSE { NextAttempt(r) }

\* part_001:531-561: the batches from track `from` on, until one has to await a fetch
RECURSIVE Verify(_, _, _, _, _, _)
Verify(r, tracks, from, kept, artistCache, albumCache) ==
    IF from > Len(tracks)
    THEN Outcomes(r, kept)
    ELSE LET batch == SubSeq(tracks, from, Min({from + batchSize - 1, Len(tracks)}))
             look == [k \in DOMAIN batch |-> Lookup(batch[k], 1, {}, artistCache, albumCache)]
         IN IF \A k \in DOMAIN look : look[k].stage = "done"
            THEN Verify(r, tracks, from + batchSize,
                        kept \o MatchingOf(batch, look, attemptFilters(r).genres),
                        artistCache, albumCache)
            ELSE { [r EXCEPT !.pc = "T_verify", !.tracks = tracks, !.batchAt = from,
                             !.genreFilteredTracks = kept, !.look = look,
                             !.catalogCalls = @ + Cardinality({k \in DOMAIN look : look[k].stage # "done"})] }

\* part_001:498-561: decade filtering, then the genre re-verification if genres are given
Pipeline(r, tracks, artistCache, albumCache) ==
    LET ts == DecadeFilter(attemptFilters(r).decades, tracks)
    IN IF Len(attemptFilters(r).genres) > 0 /\ Len(ts) > 0
       THEN Verify(r, ts, 1, <<>>, artistCache, albumCache)
       ELSE Outcomes(r, ts)

\* playRandomTrack, part_002:40-51: with no difficulty selected an alert is shown and
\* nothing is called; else getRandomTrack(filters) begins, part_001:400
playRandomTrack(f) ==
    /\ f = "game"
    /\ flow[f].pc = "idle"
    /\ \E filters \in FilterInputs :
         IF Len(filters.difficulty) = 0
         THEN Set(f, [Idle EXCEPT !.pc = "done", !.op = "playRandomTrack", !.filters = filters,
                                  !.ui = "alertNoDifficulty"])
         ELSE Set(f, EnterEnsure([Idle EXCEPT !.op = "getRandomTrack", !.filters = filters],
                                 "T_tok"))
    /\ UNCHANGED <<token, codeVerifier, secureStore, now, caches>>

\* "Relax Filters" is pressed: getRandomTrack({...filters, relaxFilters: true}), part_002:60-62
RelaxCallback(f) ==
    /\ flow[f].pc = "done"
    /\ flow[f].ui = "relaxPrompt"
    /\ Set(f, EnterEnsure([Idle EXCEPT !.op = "getRandomTrack", !.callback = TRUE,
                                       !.filters = [flow[f].filters EXCEPT !.relaxFilters = TRUE]],
                          "T_tok"))
    /\ UNCHANGED <<token, codeVerifier, secureStore, now, caches>>

TokenChecked(f) ==
    /\ flow[f].pc = "T_tok"
    /\ Set(f, AfterTokenCheck(Forget(flow[f])))
    /\ UNCHANGED <<token, codeVerifier, secureStore, now, caches>>

\* a variant of the step after the vocabulary that sends the query whatever resolved
SeedsResolvedQueryAnyway(f) ==
    /\ flow[f].pc = "T_seeds"
    /\ LET r == flow[f]
           seeds == validSeeds(attemptFilters(r).genres, r.availableSeeds)
           band == FixedBand(attemptFilters(r).difficulty)
       IN Set(f, [r EXCEPT !.pc = "T_rec", !.catalogCalls = @ + 1,
                           !.query = <<seedGenres(seeds), band[1], band[2]>>])
    /\ UNCHANGED <<token, codeVerifier, secureStore, now, caches>>

\* part_001:426-462: the vocabulary is back; no valid seed, `continue`; else the query is sent
SeedsResolved(f) ==
    /\ flow[f].pc = "T_seeds"
    /\ LET r == flow[f]
           seeds == validSeeds(attemptFilters(r).genres, r.availableSeeds)
           band == FixedBand(attemptFilters(r).difficulty)
       IN IF Len(seeds) = 0
          THEN Set(f, NextAttempt(r))
          ELSE Set(f, [r EXCEPT !.pc = "T_rec", !.catalogCalls = @ + 1,
                                !.query = <<seedGenres(seeds), band[1], band[2]>>])
    /\ UNCHANGED <<token, codeVerifier, secureStore, now, caches>>

\* part_001:470-473
RecommendationsOk(f) ==
    /\ flow[f].pc = "T_rec"
    /\ \E tracks \in CatalogAnswers :
         \E r \in Pipeline(flow[f], tracks, artistGenresCache, albumGenresCache) : Set(f, r)
    /\ UNCHANGED <<token, codeVerifier, secureStore, now, caches>>

\* part_001:474-478: a non-2xx answer, `continue`
RecommendationsRejected(f) ==
    /\ flow[f].pc = "T_rec"
    /\ \E status \in RejectStatuses :
         Set(f, NextAttempt([flow[f] EXCEPT !.unauthorized = (@ \/ status = 401)]))
    /\ UNCHANGED <<token, codeVerifier, secureStore, now, caches>>

\* fetch rejected or the body failed to parse: the catch of part_001:618-621 returns null
CatalogThrew(f) ==
    /\ flow[f].pc \in {"T_rec", "T_search"}
    /\ Set(f, Done(flow[f], NullOutcome))
    /\ UNCHANGED <<token, codeVerifier, secureStore, now, caches>>

\* part_001:491-495
SearchOk(f) ==
    /\ flow[f].pc = "T_search"
    /\ \E tracks \in CatalogAnswers :
         \E r \in Pipeline(flow[f], tracks, artistGenresCache, albumGenresCache) : Set(f, r)
    /\ UNCHANGED <<token, codeVerifier, secureStore, now, caches>>

\* a non-2xx answer of the search: tracks stays empty
SearchRejected(f) ==
    /\ flow[f].pc = "T_search"
    /\ \E status \in RejectStatuses :
         \E r \in Pipeline([flow[f] EXCEPT !.unauthorized = (@ \/ status = 401)], <<>>,
                           artistGenresCache, albumGenresCache) : Set(f, r)
    /\ UNCHANGED <<token, codeVerifier, secureStore, now, caches>>

\* a variant of the end of a lookup that moves on to the next batch as soon as this lookup
\* has returned
AfterLookupFirstDone(f, k, genres, failed, artistCache, albumCache) ==
    LET r == flow[f]
        batch == SubSeq(r.tracks, r.batchAt, Min({r.batchAt + batchSize - 1, Len(r.tracks)}))
        next == [(IF r.look[k].stage = "artist"
                  THEN Lookup(batch[k], r.look[k].k + 1, genres, artistCache, albumCache)
                  ELSE [stage |-> "done", k |-> r.look[k].k, genres |-> genres,
                        failed |-> FALSE])
                 EXCEPT !.failed = r.look[k].failed \/ failed]
        look == [r.look EXCEPT ![k] = next]
    IN IF next.stage = "done"
       THEN \E r2 \in Verify(r, r.tracks, r.batchAt + batchSize,
                             r.genreFilteredTracks \o MatchingOf(batch, look, attemptFilters(r).genres),
                             artistCache, albumCache) : Set(f, r2)
       ELSE Set(f, [r EXCEPT !.look = look, !.catalogCalls = @ + 1])

\* one lookup of the batch moves on with the caches as they now are; when the whole batch
\* is done (Promise.all, part_001:555-556) the next batch or the rest of the pipeline runs
AfterLookup(f, k, genres, failed, artistCache, albumCache) ==
    LET r == flow[f]
        batch == SubSeq(r.tracks, r.batchAt, Min({r.batchAt + batchSize - 1, Len(r.tracks)}))
        next == [(IF r.look[k].stage = "artist"
                  THEN Lookup(batch[k], r.look[k].k + 1, genres, artistCache, albumCache)
                  ELSE [stage |-> "done", k |-> r.look[k].k, genres |-> genres,
                        failed |-> FALSE])
                 EXCEPT !.failed = r.look[k].failed \/ failed]
        look == [r.look EXCEPT ![k] = next]
    IN IF \A j \in DOMAIN look : look[j].stage = "done"
       THEN \E r2 \in Verify(r, r.tracks, r.batchAt + batchSize,
                             r.genreFilteredTracks \o MatchingOf(batch, look, attemptFilters(r).genres),
                             artistCache, albumCache) : Set(f, r2)
       ELSE Set(f, [r EXCEPT !.look = look,
                             !.catalogCalls = @ + (IF next.stage = "done" THEN 0 ELSE 1)])

BatchTrack(f, k) == flow[f].tracks[flow[f].batchAt + k - 1]

\* part_001:354-358: a 2xx answer of /v1/artists/{id}
ArtistAnswer(f) ==
    /\ flow[f].pc = "T_verify"
    /\ \E k \in DOMAIN flow[f].look : \E genres \in GenreAnswers :
         /\ flow[f].look[k].stage = "artist"
         /\ LET id == BatchTrack(f, k).artists[flow[f].look[k].k]
                cache == (id :> genres) @@ artistGenresCache
            IN /\ artistGenresCache' = cache
               /\ AfterLookup(f, k, flow[f].look[k].genres \cup Range(genres), FALSE,
                              cache, albumGenresCache)
    /\ UNCHANGED <<token, codeVerifier, secureStore, now, albumGenresCache>>

\* part_001:379-383: a 2xx answer of /v1/albums/{id}
AlbumAnswer(f) ==
    /\ flow[f].pc = "T_verify"
    /\ \E k \in DOMAIN flow[f].look : \E genres \in GenreAnswers :
         /\ flow[f].look[k].stage = "album"
         /\ LET id == BatchTrack(f, k).album
                cache == (id :> genres) @@ albumGenresCache
            IN /\ albumGenresCache' = cache
               /\ AfterLookup(f, k, flow[f].look[k].genres \cup Range(genres), FALSE,
                              artistGenresCache, cache)
    /\ UNCHANGED <<token, codeVerifier, secureStore, now, artistGenresCache>>

\* a variant of the failed lookup that remembers the id with no genres
LookupFailedCaching(f) ==
    /\ flow[f].pc = "T_verify"
    /\ \E k \in DOMAIN flow[f].look :
         /\ flow[f].look[k].stage \in {"artist", "album"}
         /\ LET artistCache == IF flow[f].look[k].stage = "artist"
                               THEN (BatchTrack(f, k).artists[flow[f].look[k].k] :> <<>>)
                                    @@ artistGenresCache
                               ELSE artistGenresCache
                albumCache == IF flow[f].look[k].stage = "album"
                              THEN (BatchTrack(f, k).album :> <<>>) @@ albumGenresCache
                              ELSE albumGenresCache
            IN /\ artistGenresCache' = artistCache
               /\ albumGenresCache' = albumCache
               /\ AfterLookup(f, k, flow[f].look[k].genres, TRUE, artistCache, albumCache)
    /\ UNCHANGED <<token, codeVerifier, secureStore, now>>

\* part_001:354 and 360-362, 379 and 385-387: a non-2xx answer or a rejected fetch adds nothing
LookupFailed(f) ==
    /\ flow[f].pc = "T_verify"
    /\ \E k \in DOMAIN flow[f].look :
         /\ flow[f].look[k].stage \in {"artist", "album"}
         /\ AfterLookup(f, k, flow[f].look[k].genres, TRUE, artistGenresCache, albumGenresCache)
    /\ UNCHANGED <<token, codeVerifier, secureStore, now, caches>>

-----------------------------------------------------------------------------
(* getAvailableGenres, part_001:632-658 *)

\* part_001:634-640: without a token it returns [], else the vocabulary is fetched
GenresTokenChecked(f) ==
    /\ flow[f].pc = "G_tok"
    /\ IF ~flow[f].rv
       THEN Set(f, Return([Forget(flow[f]) EXCEPT !.availableSeeds = {}], FALSE))
       ELSE Set(f, [Forget(flow[f]) EXCEPT !.pc = "G_wait", !.catalogCalls = @ + 1])
    /\ UNCHANGED <<token, codeVerifier, secureStore, now, caches>>

\* part_001:652-653
GenresOk(f) ==
    /\ flow[f].pc = "G_wait"
    /\ \E genres \in VocabularyAnswers :
         Set(f, Return([flow[f] EXCEPT !.availableSeeds = genres], TRUE))
    /\ UNCHANGED <<token, codeVerifier, secureStore, now, caches>>

\* part_001:646-650 and 654-657
GenresFailed(f) ==
    /\ flow[f].pc = "G_wait"
    /\ Set(f, Return([flow[f] EXCEPT !.availableSeeds = {}], FALSE))
    /\ UNCHANGED <<token, codeVerifier, secureStore, now, caches>>

-----------------------------------------------------------------------------
(* The genre screen, TeamsScreen.tsx:483-529 *)

\* spotifyService.authenticate(), TeamsScreen.tsx:489 and 512
StartAuthenticate(f) ==
    /\ f = "teams"
    /\ flow[f].pc = "idle"
    /\ Set(f, EnterAuthenticate(
                 [Idle EXCEPT !.op = "authenticate", !.stack = <<"done">>,
                              !.entryAccess = Truthy(accessToken),
                              !.entryRefresh = Truthy(refreshToken),
                              !.entrySlack = IF Truthy(tokenExpiry) THEN tokenExpiry - now ELSE 0]))
    /\ UNCHANGED <<token, codeVerifier, secureStore, now, caches>>

\* spotifyService.getPopularGenres(), TeamsScreen.tsx:497, which calls getAvailableGenres
StartGetAvailableGenres(f) ==
    /\ f = "teams"
    /\ flow[f].pc = "idle"
    /\ Set(f, EnterAvailableGenres([Idle EXCEPT !.op = "getAvailableGenres"], "done"))
    /\ UNCHANGED <<token, codeVerifier, secureStore, now, caches>>

\* the screen has handled the result
Finish(f) ==
    /\ f \in Callers
    /\ flow[f].pc = "done"
    /\ Set(f, Idle)
    /\ UNCHANGED <<token, codeVerifier, secureStore, now, caches>>

\* a minute passes
Tick ==
    /\ now < MaxTime
    /\ now' = now + 1
    /\ UNCHANGED <<token, codeVerifier, secureStore, caches, flow, pure, game>>

-----------------------------------------------------------------------------
(* The process *)

\* no score submission has just been made
NoSubmission == [made |-> FALSE, scores |-> <<>>, teams |-> <<>>, gameHistory |-> <<>>,
                 currentTrack |-> Null]

\* part_003:46-49
initialTeams ==
    << [id |-> 1, name |-> "Team 1", score |-> 0],
       [id |-> 2, name |-> "Team 2", score |-> 0] >>

\* the store as created, part_003:52-56, and the score entry of the game screen,
\* part_002:28-29; `submitted` is what the last step, if it was submitScores, started from
InitialGame ==
    [teams |-> initialTeams, currentTrack |-> Null, gameHistory |-> <<>>,
     scores |-> <<>>, showScores |-> FALSE, submitted |-> NoSubmission]

\* no pure function is under evaluation
NoPure == [fn |-> "none", arg |-> <<>>, out |-> <<>>]

\* what an earlier run of the app left in SecureStore: nothing, or a credential
\* that expired ExpiredAgo minutes ago, or expires a minute inside or outside the buffer
PersistedCredentials ==
    { <<Absent, Absent, Absent>> } \cup
    { <<1, 1, e>> : e \in {StartTime - ExpiredAgo, StartTime + Skew - 1, StartTime + Skew + 1} }

\* the module is loaded: the fields of part_001:49-54, the constructor of 69-71
Init ==
    /\ accessToken = Null
    /\ refreshToken = Null
    /\ tokenExpiry = Null
    /\ codeVerifier = Null
    /\ \E p \in PersistedCredentials :
         secureStore = [k \in StoreKeys |->
                          CASE k = ACCESS_TOKEN_KEY -> p[1]
                            [] k = REFRESH_TOKEN_KEY -> p[2]
                            [] k = TOKEN_EXPIRY_KEY -> p[3]
                            [] OTHER -> Absent]
    /\ now = StartTime
    /\ artistGenresCache = <<>>
    /\ albumGenresCache = <<>>
    /\ flow = [f \in Flows |-> IF f = "loader" THEN [Idle EXCEPT !.pc = "L_read"] ELSE Idle]
    /\ pure = NoPure
    /\ game = InitialGame

\* no other flow of control is running
Alone(f) == \A g \in Flows \ {f} : flow[g].pc = "idle"

\* a step of a flow that is running
Step(f) ==
    \/ LoadTokens(f) \/ LoadDone(f)
    \/ RefreshOk(f) \/ RefreshFail(f) \/ RefreshSaved(f) \/ RefreshCleared(f)
    \/ EnsureAfterRefresh(f) \/ AuthAfterRefresh(f)
    \/ AuthNewVerifier(f) \/ AuthStoreVerifier(f) \/ AuthPrompt(f)
    \/ PromptSuccess(f) \/ PromptDeclined(f)
    \/ ExchangeSend(f) \/ ExchangeOk(f) \/ ExchangeRejected(f) \/ ExchangeThrew(f)
    \/ ExchangeSaved(f) \/ ExchangeDone(f) \/ ExchangeElse(f) \/ ExchangeCatch(f)
    \/ TokenChecked(f) \/ SeedsResolved(f)
    \/ RecommendationsOk(f) \/ RecommendationsRejected(f) \/ CatalogThrew(f)
    \/ SearchOk(f) \/ SearchRejected(f)
    \/ ArtistAnswer(f) \/ AlbumAnswer(f) \/ LookupFailed(f)
    \/ GenresTokenChecked(f) \/ GenresOk(f) \/ GenresFailed(f)
    \/ Finish(f)

\* a screen makes a call
Start(f) ==
    \/ playRandomTrack(f) \/ RelaxCallback(f)
    \/ StartAuthenticate(f) \/ StartGetAvailableGenres(f)

\* one flow of control at a time: a call is made when nothing else is running
Next ==
    \/ \E f \in Flows : Step(f)
    \/ \E f \in Callers : Alone(f) /\ Start(f)
    \/ Tick

Spec == Init /\ [][Next]_vars

-----------------------------------------------------------------------------
(* Properties *)

\* ensureValidToken has returned to flow f and its caller has not yet read the result
EnsureReturned(f) == flow[f].ensured # "none"

\* getRandomTrack has returned to the game screen
TrackCallReturned(f) == flow[f].pc = "done" /\ flow[f].op = "getRandomTrack"

\* C1: whenever ensureValidToken returns true, an access token is present and
\* now < tokenExpiry - 5 minutes holds at that moment, whatever the token endpoint answered
C1_TrueOnlyWithUsableCredential ==
    \A f \in Flows : flow[f].ensured # "unusable"

\* C2: a credential is usable only while now < tokenExpiry - 5 minutes.  A call of
\* ensureValidToken that finds an access token expiring more than 5 minutes from now returns
\* it with no token request and no prompt; one that finds an access token expiring within
\* 5 minutes does not return it as it is, and sends a refresh request if a refresh token is held
C2_FreshnessBuffer ==
    \A f \in Flows :
        EnsureReturned(f) /\ flow[f].entryAccess =>
            /\ flow[f].entrySlack > Skew =>
                 flow[f].ensured = "usable" /\ flow[f].eRequests = 0 /\ flow[f].ePrompts = 0
            /\ flow[f].entrySlack <= Skew =>
                 /\ flow[f].eRequests + flow[f].ePrompts >= 1
                 /\ flow[f].entryRefresh => flow[f].eRequests >= 1

\* C2: a call that found a credential expiring 4 minutes from now, with a refresh token,
\* has returned after a refresh request
C2_Witness ==
    \E f \in Flows :
        /\ EnsureReturned(f) /\ flow[f].entryAccess /\ flow[f].entryRefresh
        /\ flow[f].entrySlack = Skew - 1
        /\ flow[f].eRequests >= 1

\* the variants of the source for filters given with relaxFilters
RelaxedVariants(filters) ==
    << [genres |-> <<>>, decades |-> filters.decades, difficulty |-> filters.difficulty,
        relaxFilters |-> TRUE],
       [genres |-> <<>>, decades |-> <<>>, difficulty |-> filters.difficulty,
        relaxFilters |-> TRUE],
       [genres |-> <<>>, decades |-> <<>>, difficulty |-> filters.difficulty,
        relaxFilters |-> FALSE] >>

C4_AttemptedFiltersAreOriginal ==
    \A f \in Flows :
        flow[f].outcome.kind = "noTracks" =>
            flow[f].outcome.attemptedFilters = flow[f].filters

\* C4: NoTracksFound has been returned for filters whose last variant differs from them
C4_Witness ==
    \E f \in Flows :
        /\ TrackCallReturned(f)
        /\ flow[f].outcome.kind = "noTracks"
        /\ searchAttempts(flow[f].filters)[Len(searchAttempts(flow[f].filters))] # flow[f].filters

\* C5: getRandomTrack returns null if and only if no valid credential was obtained; an
\* empty or failing catalog gives NoTracksFound; the game screen reacts to a track, to
\* NoTracksFound and to null in three different ways
C5_OutcomesNotConflated ==
    \A f \in Flows :
        TrackCallReturned(f) =>
            /\ flow[f].outcome.kind = "null" <=> flow[f].gate = "failed"
            /\ flow[f].ui = CASE flow[f].outcome.kind = "track" -> "play"
                              [] flow[f].outcome.kind = "noTracks" ->
                                   (IF flow[f].callback THEN "alertNoTrackAfterRelax" ELSE "relaxPrompt")
                              [] OTHER -> "alertError"

\* C6: when no valid credential is obtained at the start of getRandomTrack, the call
\* returns null with no catalog request issued and no variant attempted
C6_FailedCredentialShortCircuits ==
    \A f \in Flows :
        flow[f].gate = "failed" =>
            /\ flow[f].catalogCalls = 0
            /\ flow[f].tried = 0
            /\ TrackCallReturned(f)
            /\ flow[f].outcome.kind = "null"

\* C6: a call of getRandomTrack has returned after ensureValidToken returned false
C6_Witness ==
    \E f \in Flows : TrackCallReturned(f) /\ flow[f].gate = "failed"

\* C7: every track returned by getRandomTrack has a non-empty preview URL
C7_ReturnedTrackHasPreview ==
    \A f \in Flows :
        flow[f].outcome.kind = "track" => flow[f].outcome.track.preview

C9_VerifierNeverOutlivesAttempt ==
    \A f \in Flows :
        flow[f].authEnd \in {"exchanged", "declined", "exchange_failed"} =>
            secureStore[VERIFIER_KEY] = Absent

\* C10: once the refresh of a credential that expired ExpiredAgo minutes ago has failed and
\* the three keys are purged, the next call of ensureValidToken prompts for authorization
C10_PurgedThenInteractive ==
    \A f \in Flows :
        EnsureReturned(f) /\ flow[f].entryPurged => flow[f].ePrompts >= 1

\* C11: once a refresh request made with refresh token R has failed, no later token
\* request of the same call is sent with R
C11_StaleRefreshTokenNotResent ==
    \A f \in Flows : ~flow[f].resent

\* C12: a 401 answer to a catalog query of the cascade is followed by exactly one
\* re-authentication (and one retry of that query) before the call returns
C12_UnauthorizedTriggersReauth ==
    \A f \in Flows :
        TrackCallReturned(f) /\ flow[f].unauthorized => flow[f].reauth = 1

\* C13: an error inside one variant (rejected fetch, non-2xx answer, unparsable body) is
\* taken as no candidates: once the credential is obtained, the call returns a track or
\* NoTracksFound, never the failure value
C13_VariantErrorsAbsorbed ==
    \A f \in Flows :
        TrackCallReturned(f) /\ flow[f].gate = "ok" =>
            flow[f].outcome.kind \in {"track", "noTracks"}

\* the lower and the upper bound of a label as the game documents them
BandLow(l) == CASE l = "easy" -> 70 [] l = "medium" -> 40 [] l = "hard" -> 0 [] l = "expert" -> 0
BandHigh(l) == CASE l = "easy" -> 100 [] l = "medium" -> 80 [] l = "hard" -> 50 [] l = "expert" -> 30

\* the popularity lies in the envelope of the labels
InEnvelope(labels, popularity) ==
    /\ popularity >= Min({BandLow(l) : l \in Range(labels)})
    /\ popularity <= Max({BandHigh(l) : l \in Range(labels)})

UsableAtEntry(f) == flow[f].entryAccess /\ flow[f].entrySlack > Skew

\* C21: a call of ensureValidToken that finds an unusable credential and a refresh token
\* sends exactly one refresh request before it returns
C21_OneRefreshPerCall ==
    \A f \in Flows :
        EnsureReturned(f) /\ ~UsableAtEntry(f) /\ flow[f].entryRefresh =>
            flow[f].eRequests = 1

RefreshCompleted(f) == flow[f].answer.by = "refresh" /\ flow[f].pc # "R_save"

\* the code exchange of flow f has succeeded, its tokens saved and its verifier cleaned up
ExchangeCompleted(f) == flow[f].answer.by = "exchange" /\ flow[f].pc \notin {"X_save", "X_done"}

\* C23: after a successful refresh the access token and the expiry are those of the
\* response; the refresh token, in memory and persisted, is the one of the response if it
\* supplies one and is otherwise what it was before
C23_RefreshTokenRotationOptional ==
    \A f \in Flows :
        RefreshCompleted(f) =>
            LET a == flow[f].answer
            IN /\ accessToken = a.data.access
               /\ tokenExpiry = ExpiryOf(a.at, a.data.life)
               /\ IF Truthy(a.data.refresh)
                  THEN /\ refreshToken = a.data.refresh
                       /\ secureStore[REFRESH_TOKEN_KEY] = a.data.refresh
                  ELSE /\ refreshToken = a.hadRefresh
                       /\ secureStore[REFRESH_TOKEN_KEY] = a.hadStored

\* C24: after a successful refresh or code exchange the expiry is the time the response
\* was processed plus its expires_in, the access token, the refresh token (that of the
\* response when it supplies one) and the expiry are the same in memory and in
\* SecureStore, and after an exchange the verifier key is absent
C24_SuccessStoresTheResponse ==
    \A f \in Flows :
        RefreshCompleted(f) \/ ExchangeCompleted(f) =>
            LET a == flow[f].answer
            IN /\ a.data.life # Null
               /\ tokenExpiry = a.at + a.data.life
               /\ accessToken = a.data.access
               /\ Truthy(a.data.refresh) \/ a.by = "exchange" => refreshToken = a.data.refresh
               /\ secureStore[ACCESS_TOKEN_KEY] = accessToken
               /\ secureStore[REFRESH_TOKEN_KEY] = refreshToken
               /\ secureStore[TOKEN_EXPIRY_KEY] = tokenExpiry
               /\ a.by = "exchange" => secureStore[VERIFIER_KEY] = Absent

\* C25: the load at process start shows no prompt; finding a persisted credential with
\* more than 5 minutes left it takes it over with no token request; finding one with less
\* it sends one refresh request; finding nothing it leaves the service without credential
C25_LoadAtStart ==
    /\ flow["loader"].ePrompts = 0
    /\ flow["loader"].pc \notin {"A_del", "A_chal", "A_set", "A_prompt", "X_get", "X_wait"}
    /\ flow["loader"].loadFound = "fresh" =>
         /\ flow["loader"].pc = "L_end"
         /\ flow["loader"].eRequests = 0
         /\ Truthy(accessToken)
         /\ accessToken = secureStore[ACCESS_TOKEN_KEY]
         /\ refreshToken = secureStore[REFRESH_TOKEN_KEY]
         /\ tokenExpiry = secureStore[TOKEN_EXPIRY_KEY]
    /\ flow["loader"].loadFound = "expired" => flow["loader"].eRequests = 1
    /\ flow["loader"].loadFound = "absent" =>
         /\ flow["loader"].pc = "L_end"
         /\ flow["loader"].eRequests = 0
         /\ accessToken = Null /\ refreshToken = Null /\ tokenExpiry = Null

\* C25: the load found a credential a minute inside the buffer and its refresh has
\* been answered
C25_Witness ==
    /\ flow["loader"].loadFound = "expired"
    /\ flow["loader"].pc = "L_end"
    /\ flow["loader"].eRequests = 1
    /\ flow["loader"].refreshedOk
    /\ tokenExpiry > now + Skew

\* the step of flow f ends the batch in flight: every lookup of it has returned
BatchCompleted(f) ==
    /\ flow[f].pc = "T_verify"
    /\ flow'[f].pc # "T_verify" \/ flow'[f].batchAt # flow[f].batchAt

\* C27: a candidate of which a genre lookup has failed is among the tracks that the genre
\* re-verification leaves when its batch ends: it is in genreFilteredTracks when a further
\* batch follows, and when the last batch ends and its popularity is inside the fixed band
\* the call returns a track chosen from candidates that hold it
C27_FailedLookupKeepsCandidate ==
    [][\A f \in Flows : BatchCompleted(f) =>
          \A k \in DOMAIN flow[f].look :
              flow[f].look[k].failed =>
                  LET t == BatchTrack(f, k)
                      band == FixedBand(attemptFilters(flow[f]).difficulty)
                  IN IF flow'[f].pc = "T_verify"
                     THEN t \in Range(flow'[f].genreFilteredTracks)
                     ELSE t.popularity >= band[1] /\ t.popularity <= band[2] =>
                            /\ flow'[f].outcome.kind = "track"
                            /\ t \in Range(flow'[f].candidates)]_vars

\* the artist or album id that lookup k of the batch of flow f is fetching, 0 if none
Fetching(f, k) ==
    CASE flow[f].look[k].stage = "artist" -> <<"artist", BatchTrack(f, k).artists[flow[f].look[k].k]>>
      [] flow[f].look[k].stage = "album" -> <<"album", BatchTrack(f, k).album>>
      [] OTHER -> <<"none", 0>>

\* C28: an id missing from the cache is fetched once however many tracks of the batch
\* share it: no two lookups of a batch are fetching the same artist id or the same album
\* id at the same time
C28_OneFetchPerId ==
    \A f \in Flows : flow[f].pc = "T_verify" =>
        \A j, k \in DOMAIN flow[f].look :
            j # k /\ Fetching(f, j)[1] # "none" => Fetching(f, j) # Fetching(f, k)

\* the lookups of the batch of flow f that are waiting for an answer
InFlight(f) == { k \in DOMAIN flow[f].look : flow[f].look[k].stage # "done" }

\* the step of flow f is the answer to the only request that variant i was waiting for
\* (a later batch whose ids are all in the caches sends no request)
LastAnswer(f) ==
    \/ flow[f].pc \in {"T_seeds", "T_rec", "T_search"}
    \/ /\ flow[f].pc = "T_verify"
       /\ Cardinality(InFlight(f)) = 1

\* the batches in flight: at most batchSize lookups, those of one batch
BatchInFlight ==
    \A f \in Flows : flow[f].pc = "T_verify" =>
        /\ Len(flow[f].look) <= batchSize
        /\ flow[f].batchAt % batchSize = 1
        /\ Len(flow[f].look) = Min({batchSize, Len(flow[f].tracks) - flow[f].batchAt + 1})
        /\ InFlight(f) # {}

\* the order of the steps of one getRandomTrack call
OneAtATime(f) ==
    /\ flow[f].op = "getRandomTrack" /\ flow[f].i >= 1 /\ flow'[f].i > flow[f].i =>
          flow'[f].i = flow[f].i + 1 /\ LastAnswer(f)
    /\ flow[f].pc = "T_verify" /\ flow'[f].pc = "T_verify"
          /\ flow'[f].batchAt # flow[f].batchAt =>
          /\ flow'[f].batchAt > flow[f].batchAt
          /\ Cardinality(InFlight(f)) = 1
    /\ flow[f].pc = "T_verify" /\ flow'[f].pc # "T_verify" => LastAnswer(f)

\* C29: within one getRandomTrack call a variant is started only when the variant before
\* it waits for nothing more; the genre re-verification has at most 10 lookups in flight,
\* all of one batch; the next batch is started only by the answer that the last lookup of
\* the batch was waiting for; and the difficulty filter runs only after the last lookup of
\* the last batch has returned
C29_VariantsAndBatchesInSequence ==
    /\ []BatchInFlight
    /\ [][\A f \in Flows : OneAtATime(f)]_vars

\* C29: the second batch is in flight after two tracks of the first were kept
C29_Witness ==
    /\ flow["game"].pc = "T_verify"
    /\ flow["game"].batchAt = batchSize + 1
    /\ Len(flow["game"].tracks) = batchSize + 1
    /\ flow["game"].look[1].stage = "album"
    /\ Len(flow["game"].genreFilteredTracks) = 2

\* in this step a lookup of the batch of flow f fails for the first time and the batch
\* goes on
FirstFailure(f) ==
    /\ flow[f].pc = "T_verify" /\ flow'[f].pc = "T_verify"
    /\ flow'[f].batchAt = flow[f].batchAt
    /\ \E k \in DOMAIN flow[f].look : ~flow[f].look[k].failed /\ flow'[f].look[k].failed

\* C30: the genre caches only grow: in no step of the process does an id leave the artist
\* or the album cache, and a step in which a lookup fails leaves both caches as they were
C30_CachesOnlyGrow ==
    [][/\ DOMAIN artistGenresCache \subseteq DOMAIN artistGenresCache'
       /\ DOMAIN albumGenresCache \subseteq DOMAIN albumGenresCache'
       /\ \A f \in Flows : FirstFailure(f) \/ LookupFailed(f) =>
              /\ artistGenresCache' = artistGenresCache
              /\ albumGenresCache' = albumGenresCache]_vars

\* C30: in a later call a lookup of artist 1 has failed while the album cache still holds
\* what an earlier call put there
C30_Witness ==
    /\ flow["game"].pc = "T_verify"
    /\ Len(flow["game"].look) = batchSize
    /\ flow["game"].look[1].failed
    /\ flow["game"].look[2].stage = "artist"
    /\ 1 \in DOMAIN albumGenresCache
    /\ DOMAIN artistGenresCache = {}

\* the vocabulary is back for variant i of flow f and holds none of its genres
NoneResolves(f) ==
    /\ flow[f].pc = "T_seeds"
    /\ \A k \in DOMAIN attemptFilters(flow[f]).genres :
          SeedOf(attemptFilters(flow[f]).genres[k]) \notin flow[f].availableSeeds

\* C32: when the vocabulary holds none of the genres of a variant, the next step of the
\* call sends no request and raises nothing: it starts the next variant, or, after the
\* last variant, returns noTracks with the filters of the call
C32_UnresolvedGenresSkipVariant ==
    [][\A f \in Flows : NoneResolves(f) /\ flow'[f] # flow[f] =>
          /\ flow'[f].i = flow[f].i + 1
          /\ flow'[f].query = <<>>
          /\ IF flow[f].i = Len(searchAttempts(flow[f].filters))
             THEN /\ flow'[f].pc = "done"
                  /\ flow'[f].catalogCalls = flow[f].catalogCalls
                  /\ flow'[f].outcome = NoTracksOutcome(flow[f])
             ELSE /\ flow'[f].pc \in {"G_tok", "T_search"}
                  /\ flow'[f].tried = flow[f].tried + 1]_vars

\* C32: a call with genres has returned noTracks after the vocabulary request alone
C32_Witness ==
    /\ TrackCallReturned("game")
    /\ flow["game"].gate = "ok"
    /\ Len(flow["game"].filters.genres) > 0
    /\ flow["game"].catalogCalls = 1
    /\ flow["game"].tried = 1
    /\ flow["game"].outcome.kind = "noTracks"

\* no load, refresh, authorization or exchange is in progress in any flow
NoTokenOperation ==
    \A f \in Flows :
        flow[f].pc \in {"idle", "done", "T_tok", "G_tok", "T_seeds", "T_rec", "T_search",
                        "T_verify", "G_wait"}

\* C35: while no token operation is in progress the credential in memory is the one in
\* SecureStore: the three persisted values are those of a credential held in memory, or
\* the three keys are absent and no access token, refresh token or expiry is held in
\* memory, so that after a failed refresh isAuthenticated() is false
C35_MemoryMirrorsStore ==
    NoTokenOperation =>
        \/ /\ Truthy(accessToken)
           /\ <<secureStore[ACCESS_TOKEN_KEY], secureStore[REFRESH_TOKEN_KEY],
                 secureStore[TOKEN_EXPIRY_KEY]>>
                = SavedTokens(accessToken, refreshToken, tokenExpiry)
        \/ /\ secureStore[ACCESS_TOKEN_KEY] = Absent
           /\ secureStore[REFRESH_TOKEN_KEY] = Absent
           /\ secureStore[TOKEN_EXPIRY_KEY] = Absent
           /\ ~Truthy(accessToken) /\ ~Truthy(refreshToken) /\ ~Truthy(tokenExpiry)

-----------------------------------------------------------------------------
(* The difficulty merge on its own: part_001:438-456 and 565-579 *)

\* the service at rest, nothing stored, nobody calling
ServiceAtRest ==
    /\ accessToken = Null
    /\ refreshToken = Null
    /\ tokenExpiry = Null
    /\ codeVerifier = Null
    /\ secureStore = [k \in StoreKeys |-> Absent]
    /\ now = StartTime
    /\ artistGenresCache = <<>>
    /\ albumGenresCache = <<>>
    /\ flow = [f \in Flows |-> Idle]
    /\ game = InitialGame

\* the difficulty labels of the game
Labels == {"easy", "medium", "hard", "expert"}
\* at most this many labels are selected, repetitions included
MaxLabels == 4

\* the window and what the difficulty step keeps of one candidate per popularity probed
BandResult(difficulty) ==
    [window |-> FixedBand(difficulty),
     kept |-> { t.popularity :
                  t \in Range(DifficultyFilter(difficulty,
                                [k \in 1..Len(ProbePopularities) |->
                                    [NoTrack EXCEPT !.id = k, !.popularity = ProbePopularities[k]]])) }]

InitBand ==
    /\ ServiceAtRest
    /\ \E l \in Labels :
         pure = [fn |-> "FixedBand", arg |-> <<l>>, out |-> BandResult(<<l>>)]

\* one more label is selected
SelectLabel ==
    /\ pure.fn = "FixedBand"
    /\ Len(pure.arg) < MaxLabels
    /\ \E l \in Labels :
         pure' = [pure EXCEPT !.arg = Append(pure.arg, l),
                              !.out = BandResult(Append(pure.arg, l))]
    /\ UNCHANGED <<service, game>>

NextBand == SelectLabel

SpecBand == InitBand /\ [][NextBand]_vars

-----------------------------------------------------------------------------
(* The percentile cuts on their own: part_001:581-590 *)

\* popularities of the candidates
Popularities == {0, 20, 80, 100}
\* at most this many candidates: with five the 75th percentile is below the maximum
MaxTracks == 5
\* the percentiles asked for; p / 100 is exact in floating point for each of them
Percents == {0, 25, 50, 75, 100}

\* part_001:582-590: the popularities sorted ascending, and the cuts; part_001:598-603:
\* the popularities of the candidates that the difficulty step keeps when no label is given
PercentileResult(pops) ==
    LET sorted == SortSeq(pops, <)
        tracks == [k \in DOMAIN pops |-> [Track1 EXCEPT !.id = k, !.popularity = pops[k]]]
        kept == DifficultyFilter(<<>>, tracks)
    IN [sorted |-> sorted, cut |-> [p \in Percents |-> percentile(sorted, p)],
        kept |-> [k \in DOMAIN kept |-> kept[k].popularity]]

InitPercentile ==
    /\ ServiceAtRest
    /\ pure = [fn |-> "percentile", arg |-> <<>>, out |-> PercentileResult(<<>>)]

\* one more candidate
AddCandidate ==
    /\ pure.fn = "percentile"
    /\ Len(pure.arg) < MaxTracks
    /\ \E x \in Popularities :
         pure' = [pure EXCEPT !.arg = Append(pure.arg, x),
                              !.out = PercentileResult(Append(pure.arg, x))]
    /\ UNCHANGED <<service, game>>

NextPercentile == AddCandidate

SpecPercentile == InitPercentile /\ [][NextPercentile]_vars

\* C16: on a sorted non-empty array the 75th percentile is at least the 25th and the
\* 0th is the first element; on the empty array every percentile is 0
C16_PercentileOrdered ==
    pure.fn = "percentile" =>
        IF Len(pure.out.sorted) = 0
        THEN \A p \in Percents : pure.out.cut[p] = 0
        ELSE /\ pure.out.cut[75] >= pure.out.cut[25]
             /\ pure.out.cut[0] = pure.out.sorted[1]

\* C16: candidates given out of order whose two cuts differ
C16_Witness ==
    /\ pure.fn = "percentile"
    /\ pure.arg = <<100, 0, 80, 20>>
    /\ pure.out.cut[25] = 20
    /\ pure.out.cut[75] = 100
    /\ pure.out.cut[0] = 0

\* the element of the sorted popularities at floor(p / 100 * length), the last if beyond
CutAt(sorted, p) ==
    LET idx == (p * Len(sorted)) \div 100
    IN IF idx >= Len(sorted) THEN sorted[Len(sorted)] ELSE sorted[idx + 1]

\* C31: with no difficulty label the difficulty step keeps, in their order, exactly the
\* candidates whose popularity p satisfies hardCut <= p <= easyCut, hardCut and easyCut
\* being the 25th and the 75th percentile of the popularities of the candidates
C31_PercentileWindow ==
    pure.fn = "percentile" /\ Len(pure.arg) > 0 =>
        LET hardCut == CutAt(pure.out.sorted, 25)
            easyCut == CutAt(pure.out.sorted, 75)
        IN /\ pure.out.cut[25] = hardCut
           /\ pure.out.cut[75] = easyCut
           /\ pure.out.kept = SelectSeq(pure.arg, LAMBDA x : hardCut <= x /\ x <= easyCut)

\* C31: five candidates of which one is below the hard cut and one above the easy cut
C31_Witness ==
    /\ pure.fn = "percentile"
    /\ pure.arg = <<100, 0, 80, 20, 20>>
    /\ pure.out.cut[25] = 20 /\ pure.out.cut[75] = 80
    /\ pure.out.kept = <<80, 20, 20>>

\* C38: with no difficulty label the difficulty step leaves at least one of the
\* candidates of a non-empty candidate set
C38_PercentileWindowNeverEmpty ==
    pure.fn = "percentile" /\ Len(pure.arg) > 0 => Len(pure.out.kept) > 0

\* C38: candidates that all share one popularity, so that both cuts fall on it
C38_Witness ==
    /\ pure.fn = "percentile"
    /\ pure.arg = <<20, 20, 20>>
    /\ pure.out.cut[25] = 20 /\ pure.out.cut[75] = 20
    /\ pure.out.kept = <<20, 20, 20>>

-----------------------------------------------------------------------------
(* The genre seeds on their own: part_001:425-435 and 458-460 *)

\* the genres a caller may request
GenreNames == {Pop, HipHopSpaced, HipHopSeed, Polka}
\* at most this many genres are requested
MaxGenres == 6

\* the seeds that are valid and the seeds that are sent
SeedsResult(genres, availableSeeds) ==
    [valid |-> validSeeds(genres, availableSeeds),
     sent |-> seedGenres(validSeeds(genres, availableSeeds))]

InitSeeds ==
    /\ ServiceAtRest
    /\ \E availableSeeds \in VocabularyAnswers :
         pure = [fn |-> "validSeeds",
                 arg |-> [genres |-> <<>>, availableSeeds |-> availableSeeds],
                 out |-> SeedsResult(<<>>, availableSeeds)]

\* one more genre is requested
RequestGenre ==
    /\ pure.fn = "validSeeds"
    /\ Len(pure.arg.genres) < MaxGenres
    /\ \E g \in GenreNames :
         pure' = [pure EXCEPT !.arg.genres = Append(@, g),
                              !.out = SeedsResult(Append(pure.arg.genres, g),
                                                  pure.arg.availableSeeds)]
    /\ UNCHANGED <<service, game>>

NextSeeds == RequestGenre

SpecSeeds == InitSeeds /\ [][NextSeeds]_vars

\* C17: every seed sent is in the vocabulary and at most 5 are sent; a requested genre
\* gives a valid seed exactly when its lowercased, hyphenated name is in the vocabulary,
\* so "Hip Hop" and "hip-hop" both give the seed hip-hop
C17_SeedsResolved ==
    pure.fn = "validSeeds" =>
        LET genres == pure.arg.genres
            vocabulary == pure.arg.availableSeeds
        IN /\ Range(pure.out.sent) \subseteq vocabulary
           /\ Range(pure.out.valid) \subseteq vocabulary
           /\ Len(pure.out.sent) <= 5
           /\ pure.out.sent = SubSeq(pure.out.valid, 1, Len(pure.out.sent))
           /\ Len(pure.out.valid) > 5 => Len(pure.out.sent) = 5
           /\ \A k \in DOMAIN genres :
                /\ genres[k] \in {HipHopSpaced, HipHopSeed} /\ HipHopSeed \in vocabulary
                     => HipHopSeed \in Range(pure.out.valid)
                /\ genres[k] = Pop /\ Pop \in vocabulary => Pop \in Range(pure.out.valid)
           /\ Len(pure.out.valid) =
                Cardinality({k \in DOMAIN genres :
                               \/ genres[k] \in {HipHopSpaced, HipHopSeed} /\ HipHopSeed \in vocabulary
                               \/ genres[k] = Pop /\ Pop \in vocabulary
                               \/ genres[k] = Polka /\ Polka \in vocabulary})

\* C17: six genres of the vocabulary are requested, "Hip Hop" among them, and the
\* first five seeds are sent
C17_Witness ==
    /\ pure.fn = "validSeeds"
    /\ pure.arg.genres = <<HipHopSpaced, Pop, HipHopSeed, Pop, Pop, HipHopSpaced>>
    /\ Len(pure.out.valid) = 6
    /\ pure.out.sent = <<HipHopSeed, Pop, HipHopSeed, Pop, Pop>>

-----------------------------------------------------------------------------
(* The game store, part_003, with the score entry of the game screen, part_002 *)

\* names given to teams in the dialog of the teams screen
TeamNames == {"A"}
\* what is typed into a score field: '', '7', '10', '11', '10.9'
ScoreInputs ==
    { <<>>, <<"7">>, <<"1", "0">>, <<"1", "1">>, <<"1", "0", ".", "9">> }
\* at most this many score fields are filled in
MaxEntries == 2
\* at most this many rounds are scored
MaxRounds == 1

\* the value of a decimal digit, -1 for any other character
DigitOf(ch) ==
    CASE ch = "0" -> 0 [] ch = "1" -> 1 [] ch = "2" -> 2 [] ch = "3" -> 3 [] ch = "4" -> 4
      [] ch = "5" -> 5 [] ch = "6" -> 6 [] ch = "7" -> 7 [] ch = "8" -> 8 [] ch = "9" -> 9
      [] OTHER -> -1

\* the number of leading digits of s
RECURSIVE LeadingDigits(_)
LeadingDigits(s) ==
    IF Len(s) = 0 \/ DigitOf(Head(s)) < 0 THEN 0 ELSE 1 + LeadingDigits(Tail(s))

\* the value of a sequence of digits
RECURSIVE DigitsValue(_)
DigitsValue(s) ==
    IF Len(s) = 0 THEN 0 ELSE 10 * DigitsValue(SubSeq(s, 1, Len(s) - 1)) + DigitOf(s[Len(s)])

\* parseInt(scoreStr), part_002:160: leading blanks and a sign are skipped, the longest
\* run of digits is read and what follows it is ignored; no digit gives NaN
RECURSIVE parseInt(_)
parseInt(s) ==
    IF Len(s) > 0 /\ Head(s) = " " THEN parseInt(Tail(s))
    ELSE LET negative == Len(s) > 0 /\ Head(s) = "-"
             body == IF Len(s) > 0 /\ Head(s) \in {"-", "+"} THEN Tail(s) ELSE s
             n == LeadingDigits(body)
         IN IF n = 0 THEN [nan |-> TRUE, value |-> 0]
            ELSE [nan |-> FALSE,
                  value |-> (IF negative THEN -1 ELSE 1) * DigitsValue(SubSeq(body, 1, n))]

\* part_002:157-164: the entries that pass !isNaN(score) && score >= 0 && score <= 10
validScores(scores) ==
    LET ok == { id \in DOMAIN scores :
                  /\ ~parseInt(scores[id]).nan
                  /\ parseInt(scores[id]).value >= 0
                  /\ parseInt(scores[id]).value <= 10 }
    IN [id \in ok |-> parseInt(scores[id]).value]

\* updateTeamScore, part_003:89-96
updateTeamScore(teams, id, score) ==
    [k \in DOMAIN teams |->
        IF teams[k].id = id THEN [teams[k] EXCEPT !.score = @ + score] ELSE teams[k]]

\* part_002:170-172: updateTeamScore for every entry of validScores
RECURSIVE updateTeamScores(_, _)
updateTeamScores(teams, valid) ==
    IF DOMAIN valid = {} THEN teams
    ELSE LET id == CHOOSE x \in DOMAIN valid : TRUE
         IN updateTeamScores(updateTeamScore(teams, id, valid[id]),
                             [x \in DOMAIN valid \ {id} |-> valid[x]])

\* the entry of addToHistory, part_003:109-123
historyEntry(track, scores, teams) ==
    [track |-> track, scores |-> scores, timestamp |-> now,
     teamScores |-> [k \in DOMAIN teams |->
                        [teamId |-> teams[k].id, teamName |-> teams[k].name,
                         score |-> IF teams[k].id \in DOMAIN scores /\ scores[teams[k].id] # 0
                                   THEN scores[teams[k].id] ELSE 0]]]

\* a step of the store or of the screen that is not a score submission
Store(g) == game' = [g EXCEPT !.submitted = NoSubmission]

\* the teams are managed before the first round: no track is current, nothing is scored
SetUp == game.currentTrack = Null /\ game.gameHistory = <<>>

\* addTeam, part_003:58-69; the id is Date.now().toString()
addTeam ==
    /\ SetUp
    /\ \E name \in TeamNames :
         IF Len(game.teams) >= 6
         THEN Store(game)
         ELSE Store([game EXCEPT !.teams = Append(@, [id |-> now, name |-> name, score |-> 0])])
    /\ UNCHANGED <<service, pure>>

\* updateTeam, part_003:71-78
updateTeam ==
    /\ SetUp
    /\ \E k \in DOMAIN game.teams : \E name \in TeamNames :
         Store([game EXCEPT !.teams =
                  [j \in DOMAIN @ |-> IF @[j].id = game.teams[k].id
                                      THEN [@[j] EXCEPT !.name = name] ELSE @[j]]])
    /\ UNCHANGED <<service, pure>>

\* deleteTeam, part_003:80-87
deleteTeam(teams, id) ==
    IF Len(teams) <= 2 THEN teams
    ELSE SelectSeq(teams, LAMBDA team : team.id # id)

\* "Delete" is pressed for a team shown on the teams screen, TeamsScreen.tsx:55
DeleteTeam ==
    /\ SetUp
    /\ \E k \in DOMAIN game.teams :
         Store([game EXCEPT !.teams = deleteTeam(game.teams, game.teams[k].id)])
    /\ UNCHANGED <<service, pure>>

\* resetGame, part_003:129-137
resetGame ==
    /\ Store([game EXCEPT !.teams = initialTeams, !.currentTrack = Null, !.gameHistory = <<>>])
    /\ UNCHANGED <<service, pure>>

\* playTrackInApp, part_002:85-88, then the playback ends or is stopped and the score
\* fields are shown, part_002:102-105 and 142-144
playTrackInApp ==
    /\ Len(game.gameHistory) < MaxRounds
    /\ Store([game EXCEPT !.currentTrack = Track1.id, !.scores = <<>>, !.showScores = TRUE])
    /\ UNCHANGED <<service, pure>>

\* handleScoreChange, part_002:152-154, from a score field, shown per team when a track is
\* current and showScores is set (part_002:220, 288-299)
handleScoreChange ==
    /\ game.currentTrack # Null
    /\ game.showScores
    /\ \E k \in DOMAIN game.teams : \E value \in ScoreInputs :
         /\ Cardinality(DOMAIN game.scores \cup {game.teams[k].id}) <= MaxEntries
         /\ Store([game EXCEPT !.scores = (game.teams[k].id :> value) @@ @])
    /\ UNCHANGED <<service, pure>>

\* submitScores, part_002:156-177
submitScores ==
    /\ game.currentTrack # Null
    /\ game.showScores
    /\ LET valid == validScores(game.scores)
           from == [made |-> TRUE, scores |-> game.scores, teams |-> game.teams,
                    gameHistory |-> game.gameHistory, currentTrack |-> game.currentTrack]
       IN IF DOMAIN valid = {}
          THEN game' = [game EXCEPT !.submitted = from]
          ELSE game' = [game EXCEPT
                 !.gameHistory = Append(@, historyEntry(game.currentTrack, valid, game.teams)),
                 !.teams = updateTeamScores(@, valid),
                 !.scores = <<>>, !.showScores = FALSE, !.currentTrack = Null,
                 !.submitted = from]
    /\ UNCHANGED <<service, pure>>

InitStore ==
    /\ ServiceAtRest
    /\ pure = NoPure

NextStore ==
    \/ addTeam
    \/ updateTeam
    \/ DeleteTeam
    \/ resetGame
    \/ playTrackInApp
    \/ handleScoreChange
    \/ submitScores
    \/ Tick

SpecStore == InitStore /\ [][NextStore]_vars

\* C19: the store always holds at least 2 and at most 6 teams
C19_TeamCountBounded ==
    Len(game.teams) >= 2 /\ Len(game.teams) <= 6

\* what is typed is a score from 0 to 10: a decimal numeral of an integer in 0..10
IsScore(str) ==
    /\ Len(str) > 0
    /\ \A k \in DOMAIN str : DigitOf(str[k]) >= 0
    /\ DigitsValue(str) <= 10

\* C20: submitScores adds to a team's total the score typed for it when that is a score
\* from 0 to 10 and leaves the other totals as they were, recording one history entry; when
\* no typed score is one, the teams, the history and the current track are left as they were
C20_OnlyScoresZeroToTenCounted ==
    game.submitted.made =>
        LET from == game.submitted
            accepted == { id \in DOMAIN from.scores : IsScore(from.scores[id]) }
        IN IF accepted = {}
           THEN /\ game.teams = from.teams
                /\ game.gameHistory = from.gameHistory
                /\ game.currentTrack = from.currentTrack
           ELSE /\ Len(game.teams) = Len(from.teams)
                /\ Len(game.gameHistory) = Len(from.gameHistory) + 1
                /\ \A k \in DOMAIN from.teams :
                     game.teams[k].score =
                        from.teams[k].score +
                          (IF from.teams[k].id \in accepted
                           THEN DigitsValue(from.scores[from.teams[k].id]) ELSE 0)

-----------------------------------------------------------------------------
(* The decade filter on its own: part_001:498-519 *)

\* the decades of the filter screen
Decades == {"1960s", "1970s", "1980s", "1990s", "2000s", "2010s", "2020s"}
\* at most this many decades are requested, repetitions included
MaxDecades == 3
\* release years of the candidates used to probe the filter; 0: no release date
ProbeYears == <<0, 1959, 1960, 1969, 1970, 1989, 1990, 1999, 2000, 2019, 2020, 2029, 2030>>
\* one candidate per probed year
ProbeTracks ==
    [k \in DOMAIN ProbeYears |-> [Track1 EXCEPT !.id = k, !.year = ProbeYears[k]]]

\* a call with these decades, no genres and every difficulty, relaxFilters false, whose
\* search has been answered
DecadeCall(decades) ==
    [Idle EXCEPT !.op = "getRandomTrack", !.pc = "T_search", !.i = 1, !.tried = 1,
                 !.gate = "ok",
                 !.filters = [genres |-> <<>>, decades |-> decades,
                              difficulty |-> <<"easy", "medium", "hard", "expert">>,
                              relaxFilters |-> FALSE]]

\* the years kept by the decade filter and the years of the tracks the call may return
DecadeResult(decades) ==
    [kept |-> { t.year : t \in Range(DecadeFilter(decades, ProbeTracks)) },
     returned |-> { r.outcome.track.year :
                      r \in { x \in Pipeline(DecadeCall(decades), ProbeTracks, <<>>, <<>>) :
                                x.outcome.kind = "track" } }]

InitDecades ==
    /\ ServiceAtRest
    /\ pure = [fn |-> "DecadeFilter", arg |-> <<>>, out |-> DecadeResult(<<>>)]

\* one more decade is requested
RequestDecade ==
    /\ pure.fn = "DecadeFilter"
    /\ Len(pure.arg) < MaxDecades
    /\ \E d \in Decades :
         pure' = [pure EXCEPT !.arg = Append(pure.arg, d),
                              !.out = DecadeResult(Append(pure.arg, d))]
    /\ UNCHANGED <<service, game>>

NextDecades == RequestDecade

SpecDecades == InitDecades /\ [][NextDecades]_vars

\* the years of a decade as the filter screen names it
InDecade(year, d) ==
    CASE d = "1960s" -> year \in 1960..1969 [] d = "1970s" -> year \in 1970..1979
      [] d = "1980s" -> year \in 1980..1989 [] d = "1990s" -> year \in 1990..1999
      [] d = "2000s" -> year \in 2000..2009 [] d = "2010s" -> year \in 2010..2019
      [] d = "2020s" -> year \in 2020..2029

\* C26: with decades requested a candidate is kept exactly when its release year lies in
\* one of them, a candidate without release date being dropped, and a call without
\* relaxFilters returns only tracks of a requested decade; with no decade requested every
\* candidate is kept
C26_DecadeFilter ==
    pure.fn = "DecadeFilter" =>
        IF Len(pure.arg) = 0
        THEN pure.out.kept = Range(ProbeYears)
        ELSE /\ pure.out.kept =
                  { y \in Range(ProbeYears) : \E d \in Range(pure.arg) : InDecade(y, d) }
             /\ 0 \notin pure.out.kept
             /\ \A y \in pure.out.returned : \E d \in Range(pure.arg) : InDecade(y, d)
             /\ pure.out.returned # {} <=> pure.out.kept # {}

\* C26: the 1960s and the 1990s are requested
C26_Witness ==
    /\ pure.fn = "DecadeFilter"
    /\ pure.arg = <<"1990s", "1960s">>
    /\ pure.out.kept = {1960, 1969, 1990, 1999}
    /\ pure.out.returned = {1960, 1969, 1990, 1999}

-----------------------------------------------------------------------------
(* Calls that overlap: the game screen and the genre screen each make one call after the
   load, within one minute, and neither waits for the other *)

\* playRandomTrack with the filters of a new game, part_003:40-44 and part_002:40-51
playFirstTrack(f) ==
    /\ f = "game"
    /\ flow[f].pc = "idle"
    /\ Set(f, EnterEnsure([Idle EXCEPT !.op = "getRandomTrack",
                                       !.filters = [genres |-> <<>>, decades |-> <<>>,
                                                    difficulty |-> <<"easy", "medium", "hard", "expert">>,
                                                    relaxFilters |-> FALSE]],
                          "T_tok"))
    /\ UNCHANGED <<token, codeVerifier, secureStore, now, caches>>

\* a step of a flow that is running
StepOverlap(f) ==
    \/ LoadTokens(f) \/ LoadDone(f)
    \/ RefreshOk(f) \/ RefreshFail(f) \/ RefreshSaved(f) \/ RefreshCleared(f)
    \/ EnsureAfterRefresh(f) \/ AuthAfterRefresh(f)
    \/ AuthNewVerifier(f) \/ AuthStoreVerifier(f) \/ AuthPrompt(f)
    \/ PromptSuccess(f) \/ PromptDeclined(f)
    \/ ExchangeSend(f) \/ ExchangeOk(f) \/ ExchangeRejected(f) \/ ExchangeThrew(f)
    \/ ExchangeSaved(f) \/ ExchangeDone(f) \/ ExchangeElse(f) \/ ExchangeCatch(f)
    \/ TokenChecked(f) \/ CatalogThrew(f) \/ SearchOk(f) \/ SearchRejected(f)
    \/ GenresTokenChecked(f) \/ GenresOk(f) \/ GenresFailed(f)

\* a screen makes a call, whatever the other screen's call is doing
StartOverlap(f) ==
    \/ playFirstTrack(f)
    \/ StartAuthenticate(f) \/ StartGetAvailableGenres(f)

NextOverlap ==
    \/ \E f \in Flows : StepOverlap(f)
    \/ \E f \in Callers : flow["loader"].pc = "idle" /\ StartOverlap(f)

SpecOverlap == Init /\ [][NextOverlap]_vars

\* C33: refresh is not single-flighted: a call that found a refresh token and no usable
\* credential when it began has sent a refresh request of its own, whatever the other
\* screen's call was doing at that time, and a refresh request in flight carries a
\* refresh token
C33_EachCallerRefreshes ==
    \A f \in Callers :
        /\ flow[f].entryRefresh /\ ~UsableAtEntry(f) => flow[f].eRequests >= 1
        /\ flow[f].pc = "R_wait" => Truthy(flow[f].reqRefresh)

\* C33: both screens' calls found the same expired credential, the refresh requests of
\* both, sent with the same refresh token, have failed, and both have opened the
\* authorization prompt
C33_Witness ==
    /\ \A f \in Callers :
         /\ flow[f].pc = "A_prompt"
         /\ flow[f].entryRefresh /\ ~UsableAtEntry(f)
         /\ flow[f].eRequests >= 1
         /\ flow[f].ePrompts = 1
    /\ flow["game"].entrySlack = flow["teams"].entrySlack
    /\ Truthy(flow["game"].failedWith)
    /\ flow["game"].failedWith = flow["teams"].failedWith

\* both screens' calls of ensureValidToken began on the same credential, unusable and with
\* a refresh token, and both have returned
BothEnsuredOnExpired ==
    /\ \A f \in Callers :
         EnsureReturned(f) /\ flow[f].entryRefresh /\ ~UsableAtEntry(f)
    /\ flow["game"].entrySlack = flow["teams"].entrySlack

\* C34: when two calls of ensureValidToken run together on an expired credential and the
\* refresh request of at least one of them was answered with a new access token, SecureStore
\* holds a credential once both calls have returned
C34_SuccessfulRefreshStaysPersisted ==
    BothEnsuredOnExpired
    /\ (\E f \in Callers : flow[f].refreshedOk /\ Truthy(flow[f].answer.data.access))
    => /\ StrTruthy(secureStore[ACCESS_TOKEN_KEY])
       /\ StrTruthy(secureStore[REFRESH_TOKEN_KEY])
       /\ StrTruthy(secureStore[TOKEN_EXPIRY_KEY])

\* C37: the code_verifier that an authorization attempt sends in its token exchange is the
\* verifier from which the code_challenge of that attempt's prompt was derived, also when
\* the attempts of the two screens overlap
C37_ExchangeSendsOwnVerifier ==
    \A f \in Callers :
        flow[f].pc = "X_wait" =>
            generateCodeChallenge(flow[f].sentVerifier) = flow[f].challenge

-----------------------------------------------------------------------------
(* The start of the process: the constructor does not await loadTokensFromStorage
   (part_001:69-71), so the first call of a screen may begin before the load has read
   SecureStore *)

\* the first call of the run, made while no other call is running
StartFirst(f) ==
    /\ \A g \in Callers : flow[g].pc = "idle"
    /\ StartOverlap(f)

NextStartup ==
    \/ \E f \in Flows : StepOverlap(f)
    \/ \E f \in Callers : StartFirst(f)
    \/ Tick

SpecStartup == Init /\ [][NextStartup]_vars

\* SecureStore holds what the earlier run left, and that credential has more than the
\* buffer left
PersistedStillUsable ==
    /\ <<secureStore[ACCESS_TOKEN_KEY], secureStore[REFRESH_TOKEN_KEY],
         secureStore[TOKEN_EXPIRY_KEY]>> \in PersistedCredentials
    /\ Found = "fresh"

\* C36: while the complete credential found in SecureStore at the start is usable, no call
\* has sent a request to the token endpoint or opened the authorization prompt, however the
\* load and the first call of a screen interleave
C36_NoTokenTrafficWhileUsable ==
    PersistedStillUsable =>
        \A f \in Flows :
            /\ flow[f].eRequests = 0 /\ flow[f].ePrompts = 0
            /\ flow[f].pc \notin {"R_wait", "A_prompt", "X_wait"}

-----------------------------------------------------------------------------
(* The game screen alone, every request and prompt of its calls being answered in the end *)

NextGame ==
    \/ \E f \in Flows : Step(f)
    \/ Alone("game") /\ (playRandomTrack("game") \/ RelaxCallback("game"))
    \/ Tick

\* a step of the call in progress stays possible until it is taken: each fetch, SecureStore
\* access and prompt resolves or fails
SpecGame == Init /\ [][NextGame]_vars /\ WF_vars(Step("game"))

\* getRandomTrack is running in flow f
TrackCallRunning(f) == flow[f].op = "getRandomTrack" /\ flow[f].pc # "done"

\* the variants begun by the call of flow f are the first `tried` of its list
VariantsInOrder(f) ==
    flow[f].op = "getRandomTrack" /\ flow[f].gate = "ok" =>
        /\ flow[f].tried <= Len(searchAttempts(flow[f].filters))
        /\ flow[f].tried = IF flow[f].i > Len(searchAttempts(flow[f].filters))
                           THEN Len(searchAttempts(flow[f].filters)) ELSE flow[f].i

\* a recommendations or search request is sent by this step of flow f
PrimaryQuerySent(f) ==
    /\ flow'[f].pc \in {"T_rec", "T_search"}
    /\ flow'[f].pc # flow[f].pc \/ flow'[f].i # flow[f].i

\* C39: every getRandomTrack call returns in the end; it begins the variants of its list
\* in order, each at most once, and sends a recommendations or search request only as the
\* first such request of a variant
C39_TrackCallTerminates ==
    /\ [](\A f \in Flows : VariantsInOrder(f))
    /\ [][\A f \in Flows : PrimaryQuerySent(f) =>
             \/ flow'[f].i = flow[f].i + 1 /\ flow'[f].pc = "T_search"
             \/ flow'[f].i = flow[f].i /\ flow[f].pc = "T_seeds"]_vars
    /\ (TrackCallRunning("game") ~> TrackCallReturned("game"))

\* C39: the relax call has returned after beginning each of its three variants
C39_Witness ==
    /\ TrackCallReturned("game")
    /\ flow["game"].filters.relaxFilters
    /\ flow["game"].tried = 3
    /\ flow["game"].outcome.kind = "noTracks"

====
